---- MODULE Spec2Model ----
(***************************************************************************)
(* todo-scan: the item identity (TodoItem::match_key), the in-memory       *)
(* index of the watch subsystem (TodoIndex) and the git-scoped diff        *)
(* (compute_diff, cmd_diff).                                               *)
(*                                                                         *)
(* Strings that the code inspects character by character (messages, git    *)
(* refs) are sequences of one-character strings; strings that the code     *)
(* only compares and copies (paths, author names) are TLA+ strings.        *)
(***************************************************************************)
EXTENDS Integers, Sequences, FiniteSets, TLC

VARIABLES
    cmd,      \* which entry point this run exercises: "index", "diff", "detect" or "watch"
    disk,     \* the files under the root, where a run follows them: path -> size, content
    items,    \* TodoIndex.items : HashMap<String, Vec<TodoItem>>
    before,   \* TodoIndex.items as it was when the last call started
    call,     \* the last TodoIndex call: operation, path, what the file system answered
    ret,      \* what the last TodoIndex call returned
    diff,     \* compute_diff / cmd_diff: inputs, locals, git commands run, result
    watch     \* cmd_watch: position in the loop, flag, configuration, batch, output

vars == <<cmd, disk, items, before, call, ret, diff, watch>>

(***************************************************************************)
(* Bounds                                                                  *)
(***************************************************************************)
\* largest number of annotations the scanned tree holds at one time
MaxItems == 2
\* largest number of lines of a file
MaxLines == 2
MaxEvents == 3
MaxQueue == 2
MaxPatterns == 2
MaxCounted == 3
MaxBytes == 2
MaxChecked == 2

(***************************************************************************)
(* Program constants                                                       *)
(***************************************************************************)
\* scanner::MAX_FILE_SIZE, in MiB (the ceiling of update_file's size check)
MAX_FILE_SIZE == 10

None == "None"

\* the relative paths of the tree
Files == {"a.rs", "b.rs"}

\* file sizes at and just above the ceiling, in MiB
Sizes == {MAX_FILE_SIZE, MAX_FILE_SIZE + 1}

(***************************************************************************)
(* Characters and strings                                                  *)
(***************************************************************************)
UpperChars == {"F", "X"}
DigitChars == {"1"}

\* char::to_lowercase on the characters used here
LowerChar(c) == CASE c = "F" -> "f" [] c = "X" -> "x" [] OTHER -> c

\* str::to_lowercase
to_lowercase(s) == [i \in 1..Len(s) |-> LowerChar(s[i])]

RECURSIVE trim_start(_)
trim_start(s) == IF s # <<>> /\ Head(s) = " " THEN trim_start(Tail(s)) ELSE s

RECURSIVE trim_end(_)
trim_end(s) ==
    IF s # <<>> /\ s[Len(s)] = " " THEN trim_end(SubSeq(s, 1, Len(s) - 1)) ELSE s

\* str::trim
trim(s) == trim_end(trim_start(s))

(***************************************************************************)
(* model.rs: Tag, Priority, TodoItem                                       *)
(***************************************************************************)
Tags == {"Todo", "Fixme", "Hack", "Xxx", "Bug", "Note"}

\* Tag::as_str (also Display for Tag)
as_str(tag) ==
    CASE tag = "Todo" -> "TODO"
      [] tag = "Fixme" -> "FIXME"
      [] tag = "Hack" -> "HACK"
      [] tag = "Xxx" -> "XXX"
      [] tag = "Bug" -> "BUG"
      [] tag = "Note" -> "NOTE"

\* the spellings of tag words that occur in the modelled inputs, upper-cased
to_uppercase(w) ==
    CASE w \in {"TODO", "todo", "Todo"} -> "TODO"
      [] w \in {"FIXME", "fixme"} -> "FIXME"
      [] w \in {"HACK", "hack"} -> "HACK"
      [] w \in {"XXX", "xxx"} -> "XXX"
      [] w \in {"BUG", "bug"} -> "BUG"
      [] w \in {"NOTE", "note"} -> "NOTE"
      [] OTHER -> w

\* Tag::from_str: Some(tag) or None
from_str(w) ==
    LET u == to_uppercase(w) IN
    CASE u = "TODO" -> "Todo"
      [] u = "FIXME" -> "Fixme"
      [] u = "HACK" -> "Hack"
      [] u = "XXX" -> "Xxx"
      [] u = "BUG" -> "Bug"
      [] u = "NOTE" -> "Note"
      [] OTHER -> None

\* a variant of match_key that also takes the line number into the key
match_key_with_line(item) ==
    <<item.file, ":", as_str(item.tag), ":", item.line>> \o to_lowercase(trim(item.message))

\* a variant of match_key that leaves the file out of the key
match_key_without_file(item) ==
    <<as_str(item.tag), ":">> \o to_lowercase(trim(item.message))

\* a variant of match_key that leaves the tag out of the key
match_key_without_tag(item) ==
    <<item.file, ":">> \o to_lowercase(trim(item.message))

\* TodoItem::match_key: format!("{}:{}:{}", file, tag, message.trim().to_lowercase())
match_key(item) ==
    <<item.file, ":", as_str(item.tag), ":">> \o to_lowercase(trim(item.message))

(***************************************************************************)
(* scanner.rs                                                              *)
(***************************************************************************)
RECURSIVE RunEnd(_, _, _)
\* the first position at or after i whose character is not in set (Len(s)+1 if none)
RunEnd(s, i, set) ==
    IF i <= Len(s) /\ s[i] \in set THEN RunEnd(s, i + 1, set) ELSE i

\* Option<String>::None of an issue reference: ISSUE_REF_RE never matches the
\* empty text, so the empty text stands for "no match"
NoIssueRef == <<>>

\* the match of ISSUE_REF_RE, (?:([A-Z]+-\d+)|#(\d+)), that starts at position i
IssueRefAt(s, i) ==
    LET j == RunEnd(s, i, UpperChars) IN
    IF j > i /\ j + 1 <= Len(s) /\ s[j] = "-" /\ s[j + 1] \in DigitChars
    THEN SubSeq(s, i, RunEnd(s, j + 1, DigitChars) - 1)
    ELSE IF s[i] = "#" /\ i + 1 <= Len(s) /\ s[i + 1] \in DigitChars
         THEN SubSeq(s, i, RunEnd(s, i + 1, DigitChars) - 1)
         ELSE NoIssueRef

\* extract_issue_ref: the leftmost match, None when there is none
extract_issue_ref(message) ==
    LET starts == {i \in 1..Len(message) : IssueRefAt(message, i) # NoIssueRef} IN
    IF starts = {} THEN NoIssueRef
    ELSE IssueRefAt(message, CHOOSE i \in starts : \A k \in starts : i <= k)

\* A line of a file as the tags pattern sees it: either no match (Plain) or
\* the four capture groups (tag word, author, priority marks, message).
Plain == [matched |-> FALSE]

Captures(word, author, marks, message) ==
    [matched |-> TRUE, word |-> word, author |-> author, marks |-> marks, message |-> message]

\* the lines that file contents are made of
SampleLines ==
    { Captures("TODO", None, "", <<"f", "-", "1">>),
      Captures("todo", "al", "!", <<" ", "F", "-", "1", " ">>),
      Captures("FIXME", None, "", <<"f", "-", "1">>),
      Captures("TODO", None, "", <<"x">>),
      Plain }

\* the lines tried in a file: every sample line in a.rs, a plain TODO or no
\* annotation in the other files
LinesOf(file) ==
    IF file = "a.rs" THEN SampleLines
    ELSE {Captures("TODO", None, "", <<"f", "-", "1">>), Plain}

\* contents of file of at most n lines
Contents(file, n) == UNION {[1..k -> LinesOf(file)] : k \in 0..n}

\* the TodoItem scan_content builds from the captures of line number line_no
scan_line(caps, file_path, line_no) ==
    LET message == trim(caps.message) IN
    [ file |-> file_path,
      line |-> line_no,
      tag |-> from_str(caps.word),
      message |-> message,
      author |-> caps.author,
      issue_ref |-> extract_issue_ref(message),
      priority |-> CASE caps.marks = "!!" -> "Urgent"
                     [] caps.marks = "!" -> "High"
                     [] OTHER -> "Normal" ]

RECURSIVE scan_lines(_, _, _)
scan_lines(content, file_path, line_idx) ==
    IF line_idx >= Len(content) THEN <<>>
    ELSE LET caps == content[line_idx + 1] IN
         IF caps.matched /\ from_str(caps.word) # None
         THEN <<scan_line(caps, file_path, line_idx + 1)>>
                  \o scan_lines(content, file_path, line_idx + 1)
         ELSE scan_lines(content, file_path, line_idx + 1)

\* scan_content: one TodoItem per line that matches and carries a known tag
scan_content(content, file_path) == scan_lines(content, file_path, 0)

\* the orders in which a set of paths can be iterated (directory walk, HashSet)
Orders(S) == {o \in [1..Cardinality(S) -> S] : \A i, j \in DOMAIN o : i # j => o[i] # o[j]}

RECURSIVE scan_walk(_, _, _)
scan_walk(tree, order, k) ==
    IF k > Len(order) THEN <<>>
    ELSE scan_content(tree[order[k]], order[k]) \o scan_walk(tree, order, k + 1)

\* scan_directory: the items of every file of the tree, in walk order
scan_directory(tree, order) == scan_walk(tree, order, 1)

\* the trees (path -> content) holding at most MaxItems annotations
Trees ==
    {t \in UNION {[S -> Contents("a.rs", MaxLines)] : S \in SUBSET Files} :
        /\ \A f \in DOMAIN t : t[f] \in Contents(f, MaxLines)
        /\ Len(scan_directory(t, CHOOSE o \in Orders(DOMAIN t) : TRUE)) <= MaxItems}

(***************************************************************************)
(* HashMap<String, Vec<TodoItem>>: a function whose domain is the key set  *)
(***************************************************************************)
\* a variant that empties the map
hm_remove_clear(m, k) == [q \in {} |-> <<>>]

\* HashMap::remove(k) as it leaves the map
hm_remove(m, k) == [q \in DOMAIN m \ {k} |-> m[q]]

\* HashMap::insert(k, v) as it leaves the map
hm_insert(m, k, v) == [q \in DOMAIN m \cup {k} |-> IF q = k THEN v ELSE m[q]]

\* map.remove(k).unwrap_or_default() / map.get(k) or the empty Vec
unwrap_or_default(m, k) == IF k \in DOMAIN m THEN m[k] ELSE <<>>

\* items.entry(item.file).or_default().push(item)
entry_push(m, item) == hm_insert(m, item.file, Append(unwrap_or_default(m, item.file), item))

RECURSIVE group_by_file(_, _, _)
group_by_file(m, scan_items, k) ==
    IF k > Len(scan_items) THEN m
    ELSE group_by_file(entry_push(m, scan_items[k]), scan_items, k + 1)

EmptyMap == [q \in {} |-> <<>>]

\* the files are not followed
NoDisk == EmptyMap

(***************************************************************************)
(* watch.rs: TodoIndex                                                     *)
(***************************************************************************)
\* TodoIndex::new: one full scan, partitioned by file
TodoIndex_new(tree, order) == group_by_file(EmptyMap, scan_directory(tree, order), 1)

\* the set of match keys of a list of items (the key sets of update_file and compute_diff)
key_set(list) == {match_key(list[k]) : k \in DOMAIN list}

RECURSIVE filter_not_in_once(_, _)
\* a variant that lets through one item for each key
filter_not_in_once(list, keys) ==
    IF list = <<>> THEN <<>>
    ELSE IF match_key(Head(list)) \notin keys
         THEN <<Head(list)>> \o filter_not_in_once(Tail(list), keys \cup {match_key(Head(list))})
         ELSE filter_not_in_once(Tail(list), keys)

\* the items of list whose key is not in keys, in list order
RECURSIVE filter_not_in(_, _)
filter_not_in(list, keys) ==
    IF list = <<>> THEN <<>>
    ELSE IF match_key(Head(list)) \notin keys
         THEN <<Head(list)>> \o filter_not_in(Tail(list), keys)
         ELSE filter_not_in(Tail(list), keys)

\* a variant that filters the new items against their own keys
added_items_own_keys(old_items, new_items) == filter_not_in(new_items, key_set(new_items))

\* update_file: added = new items whose key is not an old key
added_items(old_items, new_items) == filter_not_in(new_items, key_set(old_items))

\* update_file: removed = old items whose key is not a new key
removed_items(old_items, new_items) == filter_not_in(old_items, key_set(new_items))

\* a variant that stores the new list whether or not it is empty
commit_always(m, relative_path, new_items) == hm_insert(m, relative_path, new_items)

\* update_file: the new list goes into the map only when it is not empty
commit(m, relative_path, new_items) ==
    IF new_items # <<>> THEN hm_insert(m, relative_path, new_items) ELSE m

\* a variant in which the old entry is already taken out when the error returns
propagate_error_after_remove(m, relative_path, read_attempted) ==
    [ items |-> hm_remove(m, relative_path), ok |-> FALSE,
      added |-> <<>>, removed |-> <<>>, body_read |-> read_attempted ]

\* update_file: `?` on the stat or the read; nothing has touched the map yet
propagate_error(m, relative_path, read_attempted) ==
    [ items |-> m, ok |-> FALSE,
      added |-> <<>>, removed |-> <<>>, body_read |-> read_attempted ]

\* a variant that reports the old entry but leaves it in the map
oversized_keep_entry(m, relative_path) ==
    [ items |-> m, ok |-> TRUE,
      added |-> <<>>, removed |-> unwrap_or_default(m, relative_path), body_read |-> FALSE ]

\* update_file: the branch for a file above MAX_FILE_SIZE
oversized(m, relative_path) ==
    [ items |-> hm_remove(m, relative_path), ok |-> TRUE,
      added |-> <<>>, removed |-> unwrap_or_default(m, relative_path), body_read |-> FALSE ]

\* TodoIndex::update_file on map m, with fs the file system's answers for the path
update_file(m, relative_path, fs) ==
    IF ~fs.stat_ok THEN propagate_error(m, relative_path, FALSE)
    ELSE IF fs.len > MAX_FILE_SIZE THEN oversized(m, relative_path)
    ELSE IF ~fs.read_ok THEN propagate_error(m, relative_path, TRUE)
    ELSE LET new_items == scan_content(fs.content, relative_path)
             old_items == unwrap_or_default(m, relative_path)
             m1 == hm_remove(m, relative_path)
         IN  [ items |-> commit(m1, relative_path, new_items), ok |-> TRUE,
               added |-> added_items(old_items, new_items),
               removed |-> removed_items(old_items, new_items),
               body_read |-> TRUE ]

\* a variant that returns the list without evicting it
remove_file_keep_entry(m, relative_path) ==
    [ items |-> m, removed |-> unwrap_or_default(m, relative_path) ]

\* TodoIndex::remove_file
remove_file(m, relative_path) ==
    [ items |-> hm_remove(m, relative_path), removed |-> unwrap_or_default(m, relative_path) ]

RECURSIVE sum_lens(_, _)
sum_lens(m, S) ==
    IF S = {} THEN 0
    ELSE LET k == CHOOSE q \in S : TRUE IN Len(m[k]) + sum_lens(m, S \ {k})

\* TodoIndex::total_count
total_count(m) == sum_lens(m, DOMAIN m)

\* the file system was not asked
NoFs == [stat_ok |-> FALSE, len |-> 0, read_ok |-> FALSE, content |-> <<>>]

NoCall == [op |-> "none", path |-> None, fs |-> NoFs]
NoRet == [ok |-> TRUE, added |-> <<>>, removed |-> <<>>, body_read |-> FALSE]

(***************************************************************************)
(* watch.rs: should_exclude, collect_changed_files, build_watch_event      *)
(***************************************************************************)
\* the characters of the paths and directory names the model uses
PathChars(file) ==
    CASE file = "a.rs" -> <<"a", ".", "r", "s">>
      [] file = "b.rs" -> <<"b", ".", "r", "s">>
      [] file = "n/a.rs" -> <<"n", "/", "a", ".", "r", "s">>
      [] file = "nn/a.rs" -> <<"n", "n", "/", "a", ".", "r", "s">>
      [] file = "s/n/a.rs" -> <<"s", "/", "n", "/", "a", ".", "r", "s">>
      [] file = "n" -> <<"n">>
      [] file = "nn" -> <<"n", "n">>
      [] file = "r" -> <<"r">>

RECURSIVE split_from(_, _, _)
\* the components of chars from position k on, current being the characters
\* of the component under way; empty components are dropped
split_from(chars, k, current) ==
    IF k > Len(chars) THEN (IF current = <<>> THEN <<>> ELSE <<current>>)
    ELSE IF chars[k] = "/"
         THEN (IF current = <<>> THEN <<>> ELSE <<current>>) \o split_from(chars, k + 1, <<>>)
         ELSE split_from(chars, k + 1, Append(current, chars[k]))

\* Path::components of a relative path: the texts between the separators
Components(relative_path) == split_from(PathChars(relative_path), 1, <<>>)

\* the components of the canonicalized root
RootComponents == << <<"/">>, <<"r">> >>

\* text occurs somewhere in whole
contains(whole, text) ==
    \E k \in 0..(Len(whole) - Len(text)) : SubSeq(whole, k + 1, k + Len(text)) = text

\* Config as far as the index reads it: directory names and patterns to
\* exclude; a pattern is given by whether it compiles and the texts it matches
Config(exclude_dirs, exclude_patterns) ==
    [exclude_dirs |-> exclude_dirs, exclude_patterns |-> exclude_patterns]

\* a variant that keeps every pattern as written
exclude_regexes_unfiltered(config) == config.exclude_patterns

\* the patterns that compile: filter_map(|p| Regex::new(p).ok())
exclude_regexes(config) ==
    LET Valid(p) == p.valid IN SelectSeq(config.exclude_patterns, Valid)

\* a variant that takes a component that contains the name for a match
excluded_by_substring(exclude_dirs, components) ==
    \E d \in DOMAIN exclude_dirs : \E c \in DOMAIN components :
        contains(components[c], PathChars(exclude_dirs[d]))

\* some component equals some excluded directory name
excluded_by_dir(exclude_dirs, components) ==
    \E d \in DOMAIN exclude_dirs : \E c \in DOMAIN components :
        components[c] = PathChars(exclude_dirs[d])

\* TodoIndex::should_exclude, on the relative path
should_exclude(config, relative_path) ==
    \/ excluded_by_dir(config.exclude_dirs, Components(relative_path))
    \/ \E k \in DOMAIN exclude_regexes(config) :
           relative_path \in exclude_regexes(config)[k].matches

\* the text of the path under the root
AbsPath(relative_path) == IF relative_path = "a.rs" THEN "/r/a.rs" ELSE "/r/b.rs"

\* the exclusion test of scan_directory, on the path under the root
scan_excludes(config, relative_path) ==
    \/ excluded_by_dir(config.exclude_dirs, RootComponents \o Components(relative_path))
    \/ \E k \in DOMAIN exclude_regexes(config) :
           AbsPath(relative_path) \in exclude_regexes(config)[k].matches

\* a debounced event: its kind and its path, under the root or not
DebouncedEvent(kind, under_root, rel) == [kind |-> kind, under_root |-> under_root, rel |-> rel]

RECURSIVE collect_from_unseen(_, _, _)
\* a variant of the loop that never looks into the set of paths seen
collect_from_unseen(events, k, seen) ==
    IF k > Len(events) THEN <<>>
    ELSE LET event == events[k] IN
         IF event.kind # "Any" \/ ~event.under_root
         THEN collect_from_unseen(events, k + 1, seen)
         ELSE <<event.rel>> \o collect_from_unseen(events, k + 1, seen)

RECURSIVE collect_from(_, _, _)
\* the loop of collect_changed_files from event k on, with the paths seen so far
collect_from(events, k, seen) ==
    IF k > Len(events) THEN <<>>
    ELSE LET event == events[k] IN
         IF event.kind # "Any" \/ ~event.under_root \/ event.rel \in seen
         THEN collect_from(events, k + 1, seen)
         ELSE <<event.rel>> \o collect_from(events, k + 1, seen \cup {event.rel})

\* collect_changed_files
collect_changed_files(events) == collect_from(events, 1, {})

\* the number of items of the index that carry tag
tag_count(m, tag) ==
    LET Carries(i) == i.tag = tag IN sum_lens([p \in DOMAIN m |-> SelectSeq(m[p], Carries)], DOMAIN m)

\* a variant of the comparison that puts the smaller count first
count_before_ascending(a, b) == a[2] < b[2]

\* the comparison of the sort, b.1.cmp(&a.1): a goes before b when its
\* count is the larger
count_before(a, b) == a[2] > b[2]

RECURSIVE insert_sorted(_, _)
\* pair put into the sorted list behind every pair it does not go before
insert_sorted(sorted, pair) ==
    IF sorted = <<>> THEN <<pair>>
    ELSE IF count_before(pair, Head(sorted)) THEN <<pair>> \o sorted
         ELSE <<Head(sorted)>> \o insert_sorted(Tail(sorted), pair)

RECURSIVE sort_by(_)
\* Vec::sort_by, a stable sort: pairs that compare equal keep their order
sort_by(pairs) ==
    IF pairs = <<>> THEN <<>>
    ELSE insert_sorted(sort_by(SubSeq(pairs, 1, Len(pairs) - 1)), pairs[Len(pairs)])

\* TodoIndex::tag_counts: one pair per tag that occurs, collected in the
\* iteration order of a HashMap (any order) and sorted by count
tag_counts(m) ==
    LET present == {t \in Tags : tag_count(m, t) > 0} IN
    { sort_by([k \in DOMAIN o |-> <<o[k], tag_count(m, o[k])>>]) : o \in Orders(present) }

\* a variant that subtracts the total after the update from the one before
build_watch_event_reversed_delta(file, update, m, previous_total, tag_summary) ==
    [ file |-> file, added |-> update.added, removed |-> update.removed,
      tag_summary |-> [k \in DOMAIN tag_summary |-> <<as_str(tag_summary[k][1]), tag_summary[k][2]>>],
      total |-> total_count(m),
      total_delta |-> previous_total - total_count(m) ]

\* build_watch_event, for one of the possible tag summaries (the timestamp is left out)
build_watch_event(file, update, m, previous_total, tag_summary) ==
    [ file |-> file, added |-> update.added, removed |-> update.removed,
      tag_summary |-> [k \in DOMAIN tag_summary |-> <<as_str(tag_summary[k][1]), tag_summary[k][2]>>],
      total |-> total_count(m),
      total_delta |-> total_count(m) - previous_total ]

NoEvent ==
    [ file |-> None, added |-> <<>>, removed |-> <<>>, tag_summary |-> <<>>,
      total |-> 0, total_delta |-> 0 ]

\* cmd_watch is not running
\* the total printed last is not followed
NoTotal == -1

IdleWatch ==
    [ pc |-> "off", running |-> TRUE, config |-> Config(<<>>, <<>>), tag_filter |-> <<>>,
      channel |-> <<>>, files |-> <<>>, previous_total |-> 0, printed |-> FALSE,
      event |-> NoEvent, last_total |-> NoTotal ]

(***************************************************************************)
(* git.rs, diff.rs, cmd/diff.rs                                            *)
(*                                                                         *)
(* compute_diff is followed from one git command to the next; what git     *)
(* answers is drawn when the command runs.                                 *)
(***************************************************************************)
\* git refs as character sequences: HEAD, and one that starts with '-'
Refs == { <<"H", "E", "A", "D">>, <<"-", "-", "o">> }

\* a variant that rejects only the ref "-"
starts_with_dash_exact(base_ref) == base_ref = <<"-">>

\* str::starts_with('-')
starts_with_dash(base_ref) == base_ref # <<>> /\ Head(base_ref) = "-"

\* one run of git_command: the subcommand and the path it names, if any
GitRun(subcommand, path) == [cmd |-> subcommand, path |-> path]

\* no pathspec on the command line
NoPathspec == <<>>

\* what `git diff --name-only [-- pathspec]` prints: the paths that differ
\* between the index and the working tree (unstaged), limited to the pathspec
\* when one is given; every argument after `--` is a pathspec
git_diff_name_only(unstaged, pathspec) ==
    IF pathspec = NoPathspec THEN unstaged
    ELSE {f \in unstaged : PathChars(f) = pathspec}

\* git_command's Result for a name listing: Err, or Ok with the paths printed
GitListing(ok, out) == IF ok THEN [ok |-> TRUE, out |-> out] ELSE [ok |-> FALSE, out |-> {}]

\* the set of files the current items name
current_files(current) == {current[k].file : k \in DOMAIN current}

\* a variant whose fallback forgets the files of the current scan
detect_changed_files_base_only(diff_from_ref, diff_unstaged, base_files, current) ==
    IF ~diff_from_ref.ok \/ ~diff_unstaged.ok
    THEN base_files
    ELSE (diff_from_ref.out \cup diff_unstaged.out)
             \cup {f \in current_files(current) : f \notin base_files}

\* detect_changed_files: the two name listings plus the new files, or everything
\* when a listing failed
detect_changed_files(diff_from_ref, diff_unstaged, base_files, current) ==
    IF ~diff_from_ref.ok \/ ~diff_unstaged.ok
    THEN base_files \cup current_files(current)
    ELSE (diff_from_ref.out \cup diff_unstaged.out)
             \cup {f \in current_files(current) : f \notin base_files}

\* a variant that compares every current item, changed file or not
filter_changed_all(current, changed_files) == current

\* compute_diff: current items whose file is in changed_files
filter_changed(current, changed_files) ==
    LET InChanged(i) == i.file \in changed_files IN SelectSeq(current, InChanged)

DiffEntry(status, item) == [status |-> status, item |-> item]

with_status(list, status) == [k \in DOMAIN list |-> DiffEntry(status, list[k])]

\* a variant that tests the base items against the base keys
diff_entries_same_keys(base_items, current_changed) ==
    with_status(filter_not_in(current_changed, key_set(base_items)), "Added")
        \o with_status(filter_not_in(base_items, key_set(base_items)), "Removed")

\* compute_diff: Added = current items with no base key, then Removed = base
\* items with no current key
diff_entries(base_items, current_changed) ==
    with_status(filter_not_in(current_changed, key_set(base_items)), "Added")
        \o with_status(filter_not_in(base_items, key_set(current_changed)), "Removed")

\* entries.iter().filter(|e| matches!(e.status, status)).count()
count_status(entries, status) ==
    Cardinality({k \in DOMAIN entries : entries[k].status = status})

\* the DiffResult compute_diff builds from its entries
diff_result(entries, base_ref) ==
    [ entries |-> entries,
      added_count |-> count_status(entries, "Added"),
      removed_count |-> count_status(entries, "Removed"),
      base_ref |-> base_ref ]

\* opts.tag.iter().filter_map(|s| s.parse::<Tag>().ok())
parse_tags(words) == {from_str(words[k]) : k \in DOMAIN words} \ {None}

\* entries.retain(|entry| filter_tags.contains(&entry.item.tag))
retain_tags(entries, filter_tags) ==
    LET Keep(e) == e.item.tag \in filter_tags IN SelectSeq(entries, Keep)

\* a variant that filters the entries and keeps the counts of compute_diff
apply_tag_filter_stale_counts(result, tag) ==
    IF tag # <<>>
    THEN [result EXCEPT !.entries = retain_tags(result.entries, parse_tags(tag))]
    ELSE result

\* cmd_diff: the tag filter and the recount
apply_tag_filter(result, tag) ==
    IF tag # <<>>
    THEN LET entries == retain_tags(result.entries, parse_tags(tag)) IN
         [ result EXCEPT !.entries = entries,
                         !.added_count = count_status(entries, "Added"),
                         !.removed_count = count_status(entries, "Removed") ]
    ELSE result

\* the --tag options tried
TagOptions == { <<>>, <<"todo">>, <<"FIXME", "nope">>, <<"nope">> }

\* contents of file made of annotation lines only
AnnotatedContents(file) ==
    {c \in Contents(file, MaxLines) : \A k \in DOMAIN c : c[k].matched}

\* the scans of a working tree that cmd_diff can hand to compute_diff
Currents ==
    UNION { {scan_directory(t, o) : o \in Orders(DOMAIN t)} :
            t \in {t \in Trees : \A f \in DOMAIN t : t[f] \in AnnotatedContents(f)} }

\* what git can answer to a name listing: failure, or a set of paths
Listings == { [ok |-> FALSE, out |-> {}] } \cup { [ok |-> TRUE, out |-> S] : S \in SUBSET Files }

\* what git show can answer for path, whose content at the ref is at_ref:
\* the content, or failure, tried for the contents of at most one line
Shows(path) ==
    { [ok |-> TRUE, out |-> c, at_ref |-> c] : c \in AnnotatedContents(path) }
    \cup { [ok |-> FALSE, out |-> <<>>, at_ref |-> c] :
               c \in {c \in AnnotatedContents(path) : Len(c) <= 1} }

NoResult == diff_result(<<>>, <<>>)

\* an anyhow error: the text of its outermost message and the value formatted
\* into it
Error(msg, arg) == [msg |-> msg, arg |-> arg]
NoError == Error("", <<>>)

\* the tags pattern of the configuration, as text
TagsPattern == <<"p">>

IdleDiff ==
    [ pc |-> "idle", ok |-> TRUE, err |-> NoError, base_ref |-> <<>>, git_log |-> <<>>,
      file_list_ok |-> TRUE,
      current |-> <<>>, base_files |-> {}, listed |-> TRUE, changed_files |-> {},
      todo |-> {}, fetch_failed |-> {}, unfetched |-> <<>>, base_items |-> <<>>,
      current_changed |-> <<>>,
      result |-> NoResult, tag |-> <<>> ]

\* cmd_diff has not started
InitDiff ==
    /\ cmd = "diff"
    /\ items = EmptyMap
    /\ before = EmptyMap
    /\ call = NoCall
    /\ ret = NoRet
    /\ diff = IdleDiff
    /\ disk = NoDisk
    /\ watch = IdleWatch

\* compute_diff returns Err(why)
Fail(d, why, arg) == [d EXCEPT !.pc = "computed", !.ok = FALSE, !.err = Error(why, arg)]

\* cmd_diff: do_scan, then compute_diff is entered with the scan and the ref
CmdDiffScan ==
    /\ cmd = "diff"
    /\ diff.pc = "idle"
    /\ \E current \in Currents, base_ref \in Refs :
          diff' = [diff EXCEPT !.pc = "entered", !.current = current, !.base_ref = base_ref]
    /\ UNCHANGED <<cmd, disk, items, before, call, ret, watch>>

\* a variant that goes on with an empty base file list when git ls-tree fails
ListBase_fallback ==
    /\ cmd = "diff"
    /\ diff.pc = "entered"
    /\ \/ /\ starts_with_dash(diff.base_ref)
          /\ diff' = Fail(diff, "invalid git ref '{}': must not start with '-'", diff.base_ref)
       \/ /\ ~starts_with_dash(diff.base_ref)
          /\ \E ls_tree \in Listings, pattern_ok \in BOOLEAN :
               LET d == [diff EXCEPT !.git_log = Append(@, GitRun("ls-tree", None)),
                                     !.file_list_ok = ls_tree.ok] IN
               diff' = IF ~pattern_ok THEN Fail(d, "Invalid tags pattern: {}", TagsPattern)
                       ELSE [d EXCEPT !.pc = "listed", !.base_files = ls_tree.out]
    /\ UNCHANGED <<cmd, disk, items, before, call, ret, watch>>

\* compute_diff up to its first return or to base_files: the ref check,
\* git ls-tree, the tags pattern
ListBase ==
    /\ cmd = "diff"
    /\ diff.pc = "entered"
    /\ \/ /\ starts_with_dash(diff.base_ref)
          /\ diff' = Fail(diff, "invalid git ref '{}': must not start with '-'", diff.base_ref)
       \/ /\ ~starts_with_dash(diff.base_ref)
          /\ \E ls_tree \in Listings, pattern_ok \in BOOLEAN :
               LET d == [diff EXCEPT !.git_log = Append(@, GitRun("ls-tree", None)),
                                     !.file_list_ok = ls_tree.ok] IN
               diff' = IF ~ls_tree.ok
                       THEN Fail(d, "Failed to list files at ref {}", diff.base_ref)
                       ELSE IF ~pattern_ok THEN Fail(d, "Invalid tags pattern: {}", TagsPattern)
                       ELSE [d EXCEPT !.pc = "listed", !.base_files = ls_tree.out]
    /\ UNCHANGED <<cmd, disk, items, before, call, ret, watch>>

\* compute_diff once the loop over changed_files has no path left: filter the
\* current items, partition, count, return Ok
Finish(d) ==
    IF d.todo # {} THEN d
    ELSE LET current_changed == filter_changed(d.current, d.changed_files)
             entries == diff_entries(d.base_items, current_changed)
         IN  [d EXCEPT !.pc = "computed",
                       !.current_changed = current_changed,
                       !.result = diff_result(entries, d.base_ref)]

\* compute_diff: detect_changed_files with its two git diff commands
DetectChangedFiles ==
    /\ cmd = "diff"
    /\ diff.pc = "listed"
    /\ \E unstaged \in SUBSET Files, from_ref_ok \in BOOLEAN, unstaged_ok \in BOOLEAN :
          LET diff_from_ref ==
                  GitListing(from_ref_ok, git_diff_name_only(unstaged, diff.base_ref))
              diff_unstaged ==
                  GitListing(unstaged_ok, git_diff_name_only(unstaged, NoPathspec))
              changed_files ==
                  detect_changed_files(diff_from_ref, diff_unstaged,
                                       diff.base_files, diff.current)
          IN  \E d \in {[diff EXCEPT
                             !.pc = "fetching",
                             !.git_log = @ \o
                                 <<GitRun("diff --name-only -- ref", None),
                                   GitRun("diff --name-only", None)>>,
                             !.listed = diff_from_ref.ok /\ diff_unstaged.ok,
                             !.changed_files = changed_files,
                             !.todo = changed_files]} :
                 \E done \in {Finish(d)} : diff' = done
    /\ UNCHANGED <<cmd, disk, items, before, call, ret, watch>>

\* compute_diff: one turn of the loop over changed_files (a HashSet, any order):
\* skip a path that is not in base_files, else git show and scan; after the
\* last turn the function runs to its return
FetchBase ==
    /\ cmd = "diff"
    /\ diff.pc = "fetching"
    /\ \E path \in diff.todo :
          \/ /\ path \notin diff.base_files
             /\ \E done \in {Finish([diff EXCEPT !.todo = @ \ {path}])} : diff' = done
          \/ /\ path \in diff.base_files
             /\ \E show \in Shows(path) :
                  LET d == [diff EXCEPT !.todo = @ \ {path},
                                        !.git_log = Append(@, GitRun("show", path))]
                  IN  /\ Len(diff.base_items) + Len(diff.unfetched) + Len(show.at_ref) <= MaxItems
                      /\ \E fetched \in {IF ~show.ok
                                          THEN [d EXCEPT !.fetch_failed = @ \cup {path},
                                                         !.unfetched =
                                                             @ \o scan_content(show.at_ref, path)]
                                          ELSE [d EXCEPT !.base_items =
                                                            @ \o scan_content(show.out, path)]} :
                            \E done \in {Finish(fetched)} : diff' = done
    /\ UNCHANGED <<cmd, disk, items, before, call, ret, watch>>

\* cmd_diff after a successful compute_diff: filter by tag, recount, print_diff
CmdDiffFilter ==
    /\ cmd = "diff"
    /\ diff.pc = "computed"
    /\ diff.ok
    /\ \E tag \in TagOptions :
          diff' = [ IdleDiff EXCEPT !.pc = "printed",
                                    !.result = apply_tag_filter(diff.result, tag),
                                    !.tag = tag ]
    /\ UNCHANGED <<cmd, disk, items, before, call, ret, watch>>

\* cmd_diff returns: after print_diff, or with the error of compute_diff
CmdDiffReturn ==
    /\ cmd = "diff"
    /\ \/ diff.pc = "printed"
       \/ diff.pc = "computed" /\ ~diff.ok
    /\ diff' = IdleDiff
    /\ UNCHANGED <<cmd, disk, items, before, call, ret, watch>>

NextDiff ==
    \/ CmdDiffScan \/ ListBase \/ DetectChangedFiles \/ FetchBase
    \/ CmdDiffFilter \/ CmdDiffReturn
SpecDiff == InitDiff /\ [][NextDiff]_vars

\* what the file system can answer when update_file looks at path
FsAnswers(path) ==
    { [stat_ok |-> FALSE, len |-> 0, read_ok |-> FALSE, content |-> <<>>] }
    \cup { [stat_ok |-> TRUE, len |-> n, read_ok |-> FALSE, content |-> <<>>] : n \in Sizes }
    \cup { [stat_ok |-> TRUE, len |-> n, read_ok |-> TRUE, content |-> c] :
              n \in Sizes, c \in Contents(path, MaxLines) }


\* the index right after TodoIndex::new on some tree
InitIndex ==
    /\ cmd = "index"
    /\ \E tree \in Trees : \E order \in Orders(DOMAIN tree) : items = TodoIndex_new(tree, order)
    /\ before = items
    /\ call = NoCall
    /\ ret = NoRet
    /\ diff = IdleDiff
    /\ disk = NoDisk
    /\ watch = IdleWatch

\* a caller runs update_file(relative_path)
UpdateFile ==
    /\ cmd = "index"
    /\ call.op = "none"
    /\ \E relative_path \in Files : \E fs \in FsAnswers(relative_path) :
          \E r \in {update_file(items, relative_path, fs)} :
          /\ total_count(r.items) <= MaxItems
          /\ items' = r.items
          /\ before' = items
          /\ call' = [op |-> "update_file", path |-> relative_path, fs |-> fs]
          /\ ret' = [ok |-> r.ok, added |-> r.added, removed |-> r.removed,
                     body_read |-> r.body_read]
    /\ UNCHANGED <<cmd, disk, diff, watch>>

\* a caller runs remove_file(relative_path)
RemoveFile ==
    /\ cmd = "index"
    /\ call.op = "none"
    /\ \E relative_path \in Files :
          \E r \in {remove_file(items, relative_path)} :
          /\ items' = r.items
          /\ before' = items
          /\ call' = [op |-> "remove_file", path |-> relative_path, fs |-> NoFs]
          /\ ret' = [ok |-> TRUE, added |-> <<>>, removed |-> r.removed, body_read |-> FALSE]
    /\ UNCHANGED <<cmd, disk, diff, watch>>

\* the caller drops the value the last call returned
Consume ==
    /\ cmd = "index"
    /\ call.op # "none"
    /\ before' = items
    /\ call' = NoCall
    /\ ret' = NoRet
    /\ UNCHANGED <<cmd, disk, items, diff, watch>>

Init == InitIndex
Next == UpdateFile \/ RemoveFile \/ Consume
Spec == Init /\ [][Next]_vars

(***************************************************************************)
(* detect_changed_files on its own, as the unit tests of diff.rs call it:  *)
(* the repository (what differs between base ref and index, and between   *)
(* index and working tree), the base file list and the current scan are    *)
(* drawn when it is called.                                                *)
(***************************************************************************)
\* the refs tried: HEAD, and a ref that is spelled like a path of the tree
DetectRefs == { <<"H", "E", "A", "D">>, <<"a", ".", "r", "s">> }

InitDetect ==
    /\ cmd = "detect"
    /\ items = EmptyMap
    /\ before = EmptyMap
    /\ call = NoCall
    /\ ret = NoRet
    /\ diff = IdleDiff
    /\ disk = NoDisk
    /\ watch = IdleWatch

\* detect_changed_files(base_ref, root, base_files, current)
DetectCall ==
    /\ cmd = "detect"
    /\ call.op = "none"
    /\ \E base_ref \in DetectRefs, staged \in SUBSET Files, unstaged \in SUBSET Files,
          from_ref_ok \in BOOLEAN, unstaged_ok \in BOOLEAN,
          base_files \in SUBSET Files, current \in Currents :
          LET diff_from_ref ==
                  GitListing(from_ref_ok, git_diff_name_only(unstaged, base_ref))
              diff_unstaged ==
                  GitListing(unstaged_ok, git_diff_name_only(unstaged, NoPathspec))
          IN  /\ call' = [ op |-> "detect_changed_files", base_ref |-> base_ref,
                           staged |-> staged, unstaged |-> unstaged,
                           from_ref_ok |-> from_ref_ok, unstaged_ok |-> unstaged_ok,
                           base_files |-> base_files, current |-> current ]
              /\ ret' = [ ok |-> TRUE,
                          changed_files |-> detect_changed_files(diff_from_ref, diff_unstaged,
                                                                 base_files, current) ]
    /\ UNCHANGED <<cmd, disk, items, before, diff, watch>>

\* the caller takes the set
DetectReturn ==
    /\ cmd = "detect"
    /\ call.op = "detect_changed_files"
    /\ call' = NoCall
    /\ ret' = NoRet
    /\ UNCHANGED <<cmd, disk, items, before, diff, watch>>

NextDetect == DetectCall \/ DetectReturn
SpecDetect == InitDetect /\ [][NextDetect]_vars

(***************************************************************************)
(* collect_changed_files on its own, over every batch of at most MaxEvents *)
(* events.                                                                 *)
(***************************************************************************)
\* the debounced events a batch is made of: either kind, a path under the
\* root or not, either file name
WatchEvents ==
    { DebouncedEvent(kind, under_root, rel) :
        kind \in {"Any", "AnyContinuous"}, under_root \in BOOLEAN, rel \in Files }

\* batches of at most MaxEvents events
Batches == UNION {[1..k -> WatchEvents] : k \in 0..MaxEvents}

InitCollect ==
    /\ cmd = "collect"
    /\ items = EmptyMap
    /\ before = EmptyMap
    /\ call = NoCall
    /\ ret = NoRet
    /\ diff = IdleDiff
    /\ disk = NoDisk
    /\ watch = IdleWatch

\* collect_changed_files(&events, &root)
CollectCall ==
    /\ cmd = "collect"
    /\ call.op = "none"
    /\ \E events \in Batches :
          /\ call' = [op |-> "collect_changed_files", events |-> events]
          /\ ret' = [ok |-> TRUE, files |-> collect_changed_files(events)]
    /\ UNCHANGED <<cmd, disk, items, before, diff, watch>>

\* the caller takes the list
CollectReturn ==
    /\ cmd = "collect"
    /\ call.op = "collect_changed_files"
    /\ call' = NoCall
    /\ ret' = NoRet
    /\ UNCHANGED <<cmd, disk, items, before, diff, watch>>

NextCollect == CollectCall \/ CollectReturn
SpecCollect == InitCollect /\ [][NextCollect]_vars

(***************************************************************************)
(* TodoIndex::new on an empty directory followed by should_exclude, over   *)
(* configurations of excluded names and of at most MaxPatterns patterns.   *)
(***************************************************************************)
\* the relative paths asked about: plain, under n, under nn, and under s/n
ExcludePaths == {"a.rs", "n/a.rs", "nn/a.rs", "s/n/a.rs"}

\* an excluded pattern: whether Regex::new accepts it, and the paths whose
\* text it matches (for a pattern that does not compile: the paths it would
\* exclude were it kept)
Pattern(valid, matches) == [valid |-> valid, matches |-> matches]

\* the patterns tried: one like ^nn/, one like n/a, one like [n
ExcludePatterns ==
    { Pattern(TRUE, {"nn/a.rs"}), Pattern(TRUE, {"n/a.rs", "nn/a.rs", "s/n/a.rs"}),
      Pattern(FALSE, {"n/a.rs", "nn/a.rs", "s/n/a.rs"}) }

ExcludeConfigs ==
    { Config(exclude_dirs, exclude_patterns) :
        exclude_dirs \in { <<>>, <<"n">>, <<"nn", "n">> },
        exclude_patterns \in UNION {[1..k -> ExcludePatterns] : k \in 0..MaxPatterns} }

\* a variant of the constructor that gives up on a pattern that does not compile
new_ok_strict(tags_ok, config) ==
    tags_ok /\ \A k \in DOMAIN config.exclude_patterns : config.exclude_patterns[k].valid

\* TodoIndex::new returns Ok: the `?` of the constructor are on the tags
\* pattern and on scan_directory, which fails on the tags pattern only
new_ok(tags_ok, config) == tags_ok

InitExclude ==
    /\ cmd = "exclude"
    /\ items = EmptyMap
    /\ before = EmptyMap
    /\ call = NoCall
    /\ ret = NoRet
    /\ diff = IdleDiff
    /\ disk = NoDisk
    /\ watch = IdleWatch

\* TodoIndex::new(dir, &config), and on Ok index.should_exclude(path)
ExcludeCall ==
    /\ cmd = "exclude"
    /\ call.op = "none"
    /\ \E config \in ExcludeConfigs, path \in ExcludePaths, tags_ok \in BOOLEAN :
          /\ call' = [op |-> "should_exclude", config |-> config, path |-> path,
                      tags_ok |-> tags_ok]
          /\ ret' = IF new_ok(tags_ok, config)
                    THEN [ok |-> TRUE, compiled |-> Len(exclude_regexes(config)),
                          excluded |-> should_exclude(config, path)]
                    ELSE [ok |-> FALSE, compiled |-> 0, excluded |-> FALSE]
    /\ UNCHANGED <<cmd, disk, items, before, diff, watch>>

\* the caller takes the answer
ExcludeReturn ==
    /\ cmd = "exclude"
    /\ call.op = "should_exclude"
    /\ call' = NoCall
    /\ ret' = NoRet
    /\ UNCHANGED <<cmd, disk, items, before, diff, watch>>

NextExclude == ExcludeCall \/ ExcludeReturn
SpecExclude == InitExclude /\ [][NextExclude]_vars

(***************************************************************************)
(* git.rs: git_command. A byte is a letter, a blank, or 0xff, which no     *)
(* UTF-8 text holds; a text is a sequence of characters; an error is the   *)
(* chain of its messages, the outermost context first.                     *)
(***************************************************************************)
Bytes == {"x", " ", "0xff"}

\* the byte strings of at most n bytes
ByteStrings(n) == UNION {[1..k -> Bytes] : k \in 0..n}

\* the argument lists the program passes (diff.rs:21-22, 66, 87) and one of
\* the tests
GitArgs == { <<"log">>, <<"diff", "--name-only">>, <<"show", "HEAD:a.rs">> }

\* what running git gave: whether the process could be started, its exit
\* status, what it wrote
GitOutputs ==
    { [spawned |-> FALSE, status |-> 0, stdout |-> <<>>, stderr |-> <<>>] }
    \cup [spawned : {TRUE}, status : {0, 1, 128},
          stdout : ByteStrings(MaxBytes), stderr : ByteStrings(MaxBytes)]

\* String::from_utf8 succeeds
is_utf8(bytes) == \A k \in DOMAIN bytes : bytes[k] # "0xff"

\* String::from_utf8_lossy: an invalid byte becomes U+FFFD
from_utf8_lossy(bytes) ==
    [k \in DOMAIN bytes |-> IF bytes[k] = "0xff" THEN "U+FFFD" ELSE bytes[k]]

RECURSIVE join(_)
\* args.join(" ")
join(args) ==
    IF args = <<>> THEN <<>>
    ELSE IF Len(args) = 1 THEN <<args[1]>>
         ELSE <<args[1], " ">> \o join(Tail(args))

\* a variant in which a non-zero exit status is not looked at
status_success_always(status) == TRUE

\* ExitStatus::success
status_success(status) == status = 0

git_command(args, output) ==
    IF ~output.spawned
    THEN [ok |-> FALSE, stdout |-> <<>>,
          error |-> << <<"Failed to execute git ">> \o join(args), <<"io error">> >>]
    ELSE IF ~status_success(output.status)
    THEN [ok |-> FALSE, stdout |-> <<>>,
          error |-> << <<"git ">> \o join(args) \o <<" failed: ">>
                          \o trim(from_utf8_lossy(output.stderr)) >>]
    ELSE IF ~is_utf8(output.stdout)
    THEN [ok |-> FALSE, stdout |-> <<>>,
          error |-> << <<"git output is not valid UTF-8">>, <<"invalid utf-8 sequence">> >>]
    ELSE [ok |-> TRUE, stdout |-> output.stdout, error |-> <<>>]

InitGit ==
    /\ cmd = "git"
    /\ items = EmptyMap
    /\ before = EmptyMap
    /\ call = NoCall
    /\ ret = NoRet
    /\ diff = IdleDiff
    /\ disk = NoDisk
    /\ watch = IdleWatch

\* git_command(args, cwd), git answering with output
GitCall ==
    /\ cmd = "git"
    /\ call.op = "none"
    /\ \E args \in GitArgs : \E output \in GitOutputs :
          /\ call' = [op |-> "git_command", args |-> args, output |-> output]
          /\ ret' = git_command(args, output)
    /\ UNCHANGED <<cmd, disk, items, before, diff, watch>>

\* the caller takes the result
GitReturn ==
    /\ cmd = "git"
    /\ call.op = "git_command"
    /\ call' = NoCall
    /\ ret' = NoRet
    /\ UNCHANGED <<cmd, disk, items, before, diff, watch>>

NextGit == GitCall \/ GitReturn
SpecGit == InitGit /\ [][NextGit]_vars

(***************************************************************************)
(* check.rs: run_check over a scan, an optional diff, the configured       *)
(* thresholds and the overrides of the command line.                       *)
(***************************************************************************)
\* Option<usize>
Some(n) == [some |-> TRUE, value |-> n]
NoLimit == [some |-> FALSE, value |-> 0]

\* Option::or
or(a, b) == IF a.some THEN a ELSE b

\* the thresholds tried
Limits == {NoLimit} \cup {Some(n) : n \in 0..MaxChecked}

\* the items of a scan as far as run_check reads them
CheckedItem(line, tag) == [file |-> "a.rs", line |-> line, tag |-> tag]

\* the scans of at most MaxChecked items
Scans ==
    UNION { {[k \in 1..n |-> CheckedItem(k, t[k])] : t \in [1..n -> {"Todo", "Fixme"}]} :
            n \in 0..MaxChecked }

\* no diff, or a diff with its added_count
CheckedDiffs == {NoLimit} \cup {Some(n) : n \in 0..MaxChecked}

\* CheckOverrides and config.check
CheckOverrides(max, block_tags, max_new) ==
    [max |-> max, block_tags |-> block_tags, max_new |-> max_new]

RECURSIVE merge_blocked(_, _)
\* the configured tags pushed behind the overrides unless an equal one,
\* upper-cased, is there
merge_blocked(blocked, tags) ==
    IF tags = <<>> THEN blocked
    ELSE LET upper == to_uppercase(Head(tags)) IN
         IF \E k \in DOMAIN blocked : to_uppercase(blocked[k]) = upper
         THEN merge_blocked(blocked, Tail(tags))
         ELSE merge_blocked(Append(blocked, Head(tags)), Tail(tags))

CheckViolation(rule, message) == [rule |-> rule, message |-> message]

RECURSIVE block_violations(_, _)
\* one violation for each item whose tag is blocked, in scan order
block_violations(scan_items, blocked) ==
    IF scan_items = <<>> THEN <<>>
    ELSE LET item == Head(scan_items)
             item_tag == to_uppercase(as_str(item.tag))
             rest == block_violations(Tail(scan_items), blocked)
         IN  IF \E k \in DOMAIN blocked : to_uppercase(blocked[k]) = item_tag
             THEN <<CheckViolation("block_tags",
                        <<"Blocked tag ", as_str(item.tag), " found in ", item.file, ":", item.line>>)>>
                  \o rest
             ELSE rest

\* a variant in which a count equal to the threshold is over it
exceeds_or_reaches(count, limit) == count >= limit

\* total > max, diff.added_count > max_new
exceeds(count, limit) == count > limit

\* a variant that reads the configured value before the override
effective_config_first(override, configured) == or(configured, override)

\* overrides.max.or(config.check.max)
effective(override, configured) == or(override, configured)

run_check(scan_items, diff_added, check, overrides) ==
    LET blocked == merge_blocked(overrides.block_tags, check.block_tags)
        max == effective(overrides.max, check.max)
        max_new == effective(overrides.max_new, check.max_new)
        total == Len(scan_items)
        v1 == block_violations(scan_items, blocked)
        v2 == IF max.some /\ exceeds(total, max.value)
              THEN <<CheckViolation("max",
                        <<"Total TODOs (", total, ") exceeds max (", max.value, ")">>)>>
              ELSE <<>>
        v3 == IF max_new.some /\ diff_added.some /\ exceeds(diff_added.value, max_new.value)
              THEN <<CheckViolation("max_new",
                        <<"New TODOs (", diff_added.value, ") exceeds max_new (", max_new.value, ")">>)>>
              ELSE <<>>
        violations == v1 \o v2 \o v3
    IN  [passed |-> violations = <<>>, total |-> total, violations |-> violations]

InitCheck ==
    /\ cmd = "check"
    /\ items = EmptyMap
    /\ before = EmptyMap
    /\ call = NoCall
    /\ ret = NoRet
    /\ diff = IdleDiff
    /\ disk = NoDisk
    /\ watch = IdleWatch

\* run_check(scan, diff, config, overrides)
CheckCall ==
    /\ cmd = "check"
    /\ call.op = "none"
    /\ \E scan_items \in Scans, diff_added \in CheckedDiffs :
       \E check \in [max : Limits, block_tags : {<<>>, <<"FIXME">>}, max_new : Limits] :
       \E overrides \in [max : Limits, block_tags : {<<>>, <<"todo">>}, max_new : Limits] :
          /\ call' = [op |-> "run_check", scan |-> scan_items, diff |-> diff_added,
                      check |-> check, overrides |-> overrides]
          /\ ret' = run_check(scan_items, diff_added, check, overrides)
    /\ UNCHANGED <<cmd, disk, items, before, diff, watch>>

\* the caller takes the result
CheckReturn ==
    /\ cmd = "check"
    /\ call.op = "run_check"
    /\ call' = NoCall
    /\ ret' = NoRet
    /\ UNCHANGED <<cmd, disk, items, before, diff, watch>>

NextCheck == CheckCall \/ CheckReturn
SpecCheck == InitCheck /\ [][NextCheck]_vars

(***************************************************************************)
(* total_count and tag_counts on their own, over the indexes of trees of   *)
(* at most MaxCounted lines a file.                                        *)
(***************************************************************************)
\* the trees whose indexes are counted
CountedTrees ==
    { [f \in S |-> IF f = "a.rs" THEN a ELSE b] :
        S \in SUBSET Files, a \in Contents("a.rs", MaxCounted), b \in Contents("b.rs", MaxCounted) }

InitCounts ==
    /\ cmd = "counts"
    /\ \E tree \in CountedTrees : \E order \in Orders(DOMAIN tree) :
          items = TodoIndex_new(tree, order)
    /\ before = items
    /\ call = NoCall
    /\ ret = NoRet
    /\ diff = IdleDiff
    /\ disk = NoDisk
    /\ watch = IdleWatch

\* index.total_count() and index.tag_counts()
CountsCall ==
    /\ cmd = "counts"
    /\ call.op = "none"
    /\ call' = [op |-> "tag_counts"]
    /\ \E counts \in tag_counts(items) :
          ret' = [ok |-> TRUE, total |-> total_count(items), counts |-> counts]
    /\ UNCHANGED <<cmd, disk, items, before, diff, watch>>

\* the caller takes the counts
CountsReturn ==
    /\ cmd = "counts"
    /\ call.op = "tag_counts"
    /\ call' = NoCall
    /\ ret' = NoRet
    /\ UNCHANGED <<cmd, disk, items, before, diff, watch>>

NextCounts == CountsCall \/ CountsReturn
SpecCounts == InitCounts /\ [][NextCounts]_vars

(***************************************************************************)
(* cmd_watch: the index is built, then the loop receives batches of        *)
(* debounced events and handles the paths of a batch one at a time.  What  *)
(* the channel delivers and what the file system answers is drawn when the *)
(* loop asks.                                                              *)
(***************************************************************************)
\* the lines tried in a watched file: the annotation lines of LinesOf but the
\* one with another message
WatchLines(file) == {l \in LinesOf(file) : l.matched /\ l.message # <<"x">>}

WatchContents(file) == UNION {[1..k -> WatchLines(file)] : k \in 0..MaxLines}

\* the watched trees holding at most MaxItems annotations
WatchTrees ==
    {t \in UNION {[S -> WatchContents("a.rs")] : S \in SUBSET Files} :
        /\ \A f \in DOMAIN t : t[f] \in WatchContents(f)
        /\ Len(scan_directory(t, CHOOSE o \in Orders(DOMAIN t) : TRUE)) <= MaxItems}

\* the configurations tried: nothing excluded, or the name b.rs excluded
WatchConfigs == { Config(<<>>, <<>>), Config(<<"b.rs">>, <<>>) }

\* the --tag options tried
WatchTagOptions == { <<>>, <<"fixme">>, <<"nope">> }

(***************************************************************************)
(* update_file over files that stay: the files under the root are followed *)
(* from the scan of TodoIndex::new on, each with its size, its content and *)
(* whether the index entry of its path was last built from it.             *)
(***************************************************************************)
DiskFile(len, content, indexed) == [len |-> len, content |-> content, indexed |-> indexed]

\* the size kept for a path whose file has been deleted
Gone == -1

\* abs_path.is_file() in the loop of cmd_watch
is_file(d, path) == path \in DOMAIN d /\ d[path].len # Gone

\* what metadata and read_to_string answer for path
stat_and_read(d, path) ==
    IF is_file(d, path)
    THEN [stat_ok |-> TRUE, len |-> d[path].len, read_ok |-> TRUE, content |-> d[path].content]
    ELSE NoFs

\* the index right after TodoIndex::new; scan_directory reads a file whatever
\* its size (scanner.rs:124)
InitRescan ==
    /\ cmd = "rescan"
    /\ \E tree \in WatchTrees : \E order \in Orders(DOMAIN tree) : \E lens \in [DOMAIN tree -> Sizes] :
          /\ items = TodoIndex_new(tree, order)
          /\ disk = [f \in DOMAIN tree |-> DiskFile(lens[f], tree[f], TRUE)]
    /\ before = items
    /\ call = NoCall
    /\ ret = NoRet
    /\ diff = IdleDiff
    /\ watch = IdleWatch

\* a file is created or rewritten with another size or content
WriteFile ==
    /\ cmd = "rescan"
    /\ call.op = "none"
    /\ \E path \in Files : \E len \in Sizes : \E content \in WatchContents(path) :
          /\ path \in DOMAIN disk => (disk[path].len # len \/ disk[path].content # content)
          /\ disk' = hm_insert(disk, path, DiskFile(len, content, FALSE))
    /\ UNCHANGED <<cmd, items, before, call, ret, diff, watch>>

\* a file is deleted
DeleteFile ==
    /\ cmd = "rescan"
    /\ call.op = "none"
    /\ \E path \in Files :
          /\ is_file(disk, path)
          /\ disk' = hm_insert(disk, path, DiskFile(Gone, <<>>, FALSE))
    /\ UNCHANGED <<cmd, items, before, call, ret, diff, watch>>

\* a caller runs update_file(relative_path) on the files as they are
RescanFile ==
    /\ cmd = "rescan"
    /\ call.op = "none"
    /\ \E relative_path \in Files :
          \E fs \in {stat_and_read(disk, relative_path)} :
          \E r \in {update_file(items, relative_path, fs)} :
          /\ total_count(r.items) <= MaxItems
          /\ items' = r.items
          /\ before' = items
          /\ call' = [op |-> "update_file", path |-> relative_path, fs |-> fs,
                      unchanged |-> is_file(disk, relative_path) /\ disk[relative_path].indexed]
          /\ ret' = [ok |-> r.ok, added |-> r.added, removed |-> r.removed,
                     body_read |-> r.body_read]
          /\ disk' = IF r.ok THEN [disk EXCEPT ![relative_path].indexed = TRUE] ELSE disk
    /\ UNCHANGED <<cmd, diff, watch>>

\* the loop of cmd_watch finds no file at the path and runs remove_file
RemoveDeleted ==
    /\ cmd = "rescan"
    /\ call.op = "none"
    /\ \E relative_path \in Files :
          \E r \in {remove_file(items, relative_path)} :
          /\ ~is_file(disk, relative_path)
          /\ items' = r.items
          /\ before' = items
          /\ call' = [op |-> "remove_file", path |-> relative_path, fs |-> NoFs,
                      unchanged |-> FALSE]
          /\ ret' = [ok |-> TRUE, added |-> <<>>, removed |-> r.removed, body_read |-> FALSE]
          /\ disk' = [disk EXCEPT ![relative_path].indexed = TRUE]
    /\ UNCHANGED <<cmd, diff, watch>>

\* the caller drops the value the call returned
RescanReturn ==
    /\ cmd = "rescan"
    /\ call.op # "none"
    /\ before' = items
    /\ call' = NoCall
    /\ ret' = NoRet
    /\ UNCHANGED <<cmd, disk, items, diff, watch>>

NextRescan == WriteFile \/ DeleteFile \/ RescanFile \/ RemoveDeleted \/ RescanReturn
SpecRescan == InitRescan /\ [][NextRescan]_vars

\* what the file system answers to is_file, metadata and read_to_string in
\* update_file: stat fails, the file is above the ceiling, the read fails, or
\* the content
WatchFsAnswers(path) ==
    { [stat_ok |-> FALSE, len |-> 0, read_ok |-> FALSE, content |-> <<>>],
      [stat_ok |-> TRUE, len |-> MAX_FILE_SIZE + 1, read_ok |-> TRUE, content |-> <<>>],
      [stat_ok |-> TRUE, len |-> MAX_FILE_SIZE, read_ok |-> FALSE, content |-> <<>>] }
    \cup { [stat_ok |-> TRUE, len |-> MAX_FILE_SIZE, read_ok |-> TRUE, content |-> c] :
              c \in WatchContents(path) }

\* what the debouncer puts on the channel: Ok(events) or Err(error)
Message(ok, events) == [ok |-> ok, events |-> events]

\* the batches the watcher is let send: one that names a.rs twice, and one
\* that names a.rs and b.rs among events collect_changed_files drops
SentBatches ==
    { <<DebouncedEvent("Any", TRUE, "a.rs"), DebouncedEvent("Any", TRUE, "a.rs")>>,
      <<DebouncedEvent("Any", FALSE, "a.rs"), DebouncedEvent("Any", TRUE, "a.rs"),
        DebouncedEvent("AnyContinuous", TRUE, "b.rs"), DebouncedEvent("Any", TRUE, "b.rs")>> }

Messages == {Message(TRUE, events) : events \in SentBatches} \cup {Message(FALSE, <<>>)}

\* cmd_watch up to the loop, for the given configurations, trees and --tag
\* options: TodoIndex::new over the tree, filter_tags, the empty channel
StartWatch(configs, trees, tag_options, followed) ==
    /\ cmd = "watch"
    /\ \E config \in configs, tree \in trees, tag_filter \in tag_options :
          LET kept == {f \in DOMAIN tree : ~scan_excludes(config, f)} IN
          \E order \in Orders(kept) :
             /\ items = TodoIndex_new([f \in kept |-> tree[f]], order)
             /\ watch = [IdleWatch EXCEPT !.pc = "recv", !.config = config,
                                          !.tag_filter = tag_filter,
                                          !.last_total =
                                              IF followed THEN total_count(items) ELSE NoTotal]
    /\ before = items
    /\ call = NoCall
    /\ ret = NoRet
    /\ diff = IdleDiff
    /\ disk = NoDisk

InitWatch == StartWatch(WatchConfigs, WatchTrees, WatchTagOptions, FALSE)

\* the watcher thread: the debouncer sends a message on tx; the channel is
\* unbounded, the model lets it hold MaxQueue messages
WatcherSend ==
    /\ cmd = "watch"
    /\ watch.pc \in {"recv", "file", "done"}
    /\ Len(watch.channel) < MaxQueue
    /\ \E msg \in Messages : watch' = [watch EXCEPT !.channel = Append(@, msg)]
    /\ UNCHANGED <<cmd, disk, items, before, call, ret, diff>>

\* the handler of Ctrl+C: running.store(false)
CtrlC ==
    /\ cmd = "watch"
    /\ watch.pc \in {"recv", "file", "done"}
    /\ watch.running
    /\ watch' = [watch EXCEPT !.running = FALSE]
    /\ UNCHANGED <<cmd, disk, items, before, call, ret, diff>>

\* the loop goes on to the paths of this batch, or back to recv_timeout
next_batch(w, files) ==
    [w EXCEPT !.pc = IF files = <<>> THEN "recv" ELSE "file", !.files = files,
              !.previous_total = 0, !.printed = FALSE, !.event = NoEvent]

\* a variant of the loop condition that never looks at the flag
loop_continues_always(w) == TRUE

\* the condition of the while loop: running.load(Ordering::SeqCst)
loop_continues(w) == w.running

\* what recv_timeout returned
Received(answer) == [op |-> "recv_timeout", path |-> answer, fs |-> NoFs]

\* a variant of the channel that hands out the message sent last
recv_newest(channel) ==
    [msg |-> channel[Len(channel)], rest |-> SubSeq(channel, 1, Len(channel) - 1)]

\* Receiver::recv_timeout on a channel that holds a message: the one sent first
recv(channel) == [msg |-> Head(channel), rest |-> Tail(channel)]

\* while running.load(): recv_timeout returns the next message, a batch or
\* an error of the watcher; on an empty channel it times out or finds the
\* sender gone
WatchRecv ==
    /\ cmd = "watch"
    /\ watch.pc = "recv"
    /\ \/ /\ ~loop_continues(watch)
          /\ watch' = [next_batch(watch, <<>>) EXCEPT !.pc = "stopped"]
          /\ call' = NoCall
       \/ /\ loop_continues(watch)
          /\ watch.channel # <<>>
          /\ \E got \in {recv(watch.channel)} :
                IF got.msg.ok
                THEN /\ watch' = [next_batch(watch, collect_changed_files(got.msg.events))
                                    EXCEPT !.channel = got.rest]
                     /\ call' = Received("Events")
                ELSE /\ watch' = [next_batch(watch, <<>>) EXCEPT !.channel = got.rest]
                     /\ call' = Received("Error")
       \/ /\ loop_continues(watch)
          /\ watch.channel = <<>>
          /\ \/ /\ watch' = next_batch(watch, <<>>)
                /\ call' = Received("Timeout")
             \/ /\ watch' = [next_batch(watch, <<>>) EXCEPT !.pc = "stopped"]
                /\ call' = Received("Disconnected")
    /\ before' = items
    /\ ret' = NoRet
    /\ UNCHANGED <<cmd, disk, items, diff>>

\* a variant that leaves the loop when a path could not be handled
skip_file_and_stop(w, rest, previous_total) ==
    [w EXCEPT !.pc = "stopped", !.files = <<>>,
              !.previous_total = previous_total, !.printed = FALSE, !.event = NoEvent]

\* a variant that prints an event for the path although the turn is cut short
skip_file_printed(w, rest, previous_total) ==
    [w EXCEPT !.pc = "done", !.files = rest,
              !.previous_total = previous_total, !.printed = TRUE, !.event = NoEvent]

\* `continue` in the loop over the files: nothing is printed for this path,
\* and the turn for this path is done
skip_file(w, rest, previous_total) ==
    [w EXCEPT !.pc = "done", !.files = rest,
              !.previous_total = previous_total, !.printed = FALSE, !.event = NoEvent]

\* a variant that never holds an update back
is_noop_never(update) == FALSE

\* update.added.is_empty() && update.removed.is_empty()
is_noop(update) == update.added = <<>> /\ update.removed = <<>>

\* list.retain(|i| filter_tags.contains(&i.tag))
retain_items(list, filter_tags) ==
    LET Keep(i) == i.tag \in filter_tags IN SelectSeq(list, Keep)

\* the tag filter on the displayed items of an event
filter_event(event, filter_tags) ==
    IF filter_tags # {}
    THEN [event EXCEPT !.added = retain_items(@, filter_tags),
                       !.removed = retain_items(@, filter_tags)]
    ELSE event

\* the loop body after the update of file: hold back a no-op, build the
\* event, filter it, hold it back when the filter emptied it, else print it;
\* event is the event of this turn once it is built, printed or not
print_update(w, file, rest, update, m, previous_total, tag_summary) ==
    IF is_noop(update) THEN skip_file(w, rest, previous_total)
    ELSE LET filter_tags == parse_tags(w.tag_filter)
             event == filter_event(
                          build_watch_event(file, update, m, previous_total, tag_summary),
                          filter_tags)
         IN  IF filter_tags # {} /\ event.added = <<>> /\ event.removed = <<>>
             THEN [skip_file(w, rest, previous_total) EXCEPT !.event = event]
             ELSE [skip_file(w, rest, previous_total) EXCEPT
                      !.printed = TRUE, !.event = event,
                      !.last_total = IF @ = NoTotal THEN NoTotal ELSE event.total]

\* one turn of `for file in files`, up to the end of the loop body
WatchFile ==
    /\ cmd = "watch"
    /\ watch.pc = "file"
    /\ LET file == Head(watch.files)
           rest == Tail(watch.files)
           previous_total == total_count(items)
       IN  \/ /\ should_exclude(watch.config, file)
              /\ items' = items
              /\ call' = [op |-> "should_exclude", path |-> file, fs |-> NoFs]
              /\ ret' = NoRet
              /\ watch' = skip_file(watch, rest, 0)
           \/ /\ ~should_exclude(watch.config, file)
              /\ \E fs \in WatchFsAnswers(file) :
                    /\ call' = [op |-> "update_file", path |-> file, fs |-> fs]
                    /\ \E r \in {update_file(items, file, fs)} :
                           /\ total_count(r.items) <= MaxItems
                           /\ items' = r.items
                           /\ ret' = [ok |-> r.ok, added |-> r.added, removed |-> r.removed,
                                      body_read |-> r.body_read]
                           /\ IF ~r.ok THEN watch' = skip_file(watch, rest, previous_total)
                              ELSE \E tag_summary \in tag_counts(r.items) :
                                      watch' = print_update(watch, file, rest, r, r.items,
                                                            previous_total, tag_summary)
           \/ /\ ~should_exclude(watch.config, file)
              /\ \E r \in {remove_file(items, file)} :
                 LET update == [added |-> <<>>, removed |-> r.removed]
                 IN  /\ items' = r.items
                     /\ call' = [op |-> "remove_file", path |-> file, fs |-> NoFs]
                     /\ ret' = [ok |-> TRUE, added |-> <<>>, removed |-> r.removed,
                                body_read |-> FALSE]
                     /\ \E tag_summary \in tag_counts(r.items) :
                            watch' = print_update(watch, file, rest, update, r.items,
                                                  previous_total, tag_summary)
    /\ before' = items
    /\ UNCHANGED <<cmd, disk, diff>>

\* the end of a turn: update and event go out of scope, the loop takes the
\* next path of the batch or goes back to recv_timeout
WatchNext ==
    /\ cmd = "watch"
    /\ watch.pc = "done"
    /\ watch' = next_batch(watch, watch.files)
    /\ before' = items
    /\ call' = NoCall
    /\ ret' = NoRet
    /\ UNCHANGED <<cmd, disk, items, diff>>

\* the watcher sends while the consumer waits on an empty channel: every
\* sequence of messages reaches the consumer this way, one at a time
WatcherSendWaited == WatcherSend /\ watch.pc = "recv" /\ watch.channel = <<>>

NextWatch == CtrlC \/ WatcherSendWaited \/ WatchRecv \/ WatchFile \/ WatchNext
SpecWatch == InitWatch /\ [][NextWatch]_vars

\* recv_timeout returns within its timeout and the handling of a path ends,
\* so no step of the loop is put off for ever; Ctrl+C may never come
SpecWatchFair ==
    SpecWatch /\ WF_vars(WatchRecv) /\ WF_vars(WatchFile) /\ WF_vars(WatchNext)

\* the loop with the total printed last followed, from the initial summary on
InitTotals == StartWatch(WatchConfigs, WatchTrees, WatchTagOptions, TRUE)
SpecTotals == InitTotals /\ [][NextWatch]_vars

\* configurations with a pattern: one that matches a.rs wherever it occurs in
\* a path, one that is anchored at the start (^a\.rs) and so matches the
\* relative path only, and the name of the root as an excluded directory
PatternConfigs ==
    { Config(<<>>, <<Pattern(TRUE, {"a.rs", "/r/a.rs"})>>),
      Config(<<>>, <<Pattern(TRUE, {"a.rs"})>>),
      Config(<<"r">>, <<>>) }

\* the loop under these configurations
InitPatterns == StartWatch(PatternConfigs, WatchTrees, {<<>>}, FALSE)
SpecPatterns == InitPatterns /\ [][NextWatch]_vars

\* the watcher thread sends whenever it likes while the loop runs, on the
\* index of an empty tree with nothing excluded and no --tag
InitChannel == StartWatch({Config(<<>>, <<>>)}, {EmptyMap}, {<<>>}, FALSE)
NextChannel == CtrlC \/ WatcherSend \/ WatchRecv \/ WatchFile \/ WatchNext
SpecChannel == InitChannel /\ [][NextChannel]_vars

\* either entry point: the index calls or cmd_diff
InitAll == InitIndex \/ InitDiff
NextAll == Next \/ NextDiff
SpecAll == InitAll /\ [][NextAll]_vars

(***************************************************************************)
(* Properties of the index                                                 *)
(***************************************************************************)
\* the identity of an annotation: file, tag, and trimmed, lower-cased message
IdentityKey(item) == <<item.file, item.tag, to_lowercase(trim(item.message))>>

IdentityKeys(list) == {IdentityKey(list[k]) : k \in DOMAIN list}

\* the sub-list of list whose identity is not the identity of any item of other
NotIn(list, other) ==
    LET Fresh(i) == \A k \in DOMAIN other : IdentityKey(other[k]) # IdentityKey(i)
    IN  SelectSeq(list, Fresh)

\* the last call was update_file on a file at or below the ceiling and it returned Ok
UpdateSucceeded ==
    /\ call.op = "update_file"
    /\ ret.ok
    /\ call.fs.len <= MAX_FILE_SIZE

OldItems == unwrap_or_default(before, call.path)
NewItems == scan_content(call.fs.content, call.path)

\* C1: no path in the index maps to an empty annotation list; a path is either
\* absent or maps to a list with at least one annotation.
C1_NoEmptyEntry == \A p \in DOMAIN items : Len(items[p]) >= 1

\* an indexed file was re-scanned, held no annotation any more, and its entry is gone
C1_Witness ==
    /\ UpdateSucceeded
    /\ call.path \in DOMAIN before
    /\ NewItems = <<>>
    /\ call.path \notin DOMAIN items

\* C2: after a successful update_file on a file not above the ceiling, added is
\* exactly the new items whose identity matches no old item, and removed is
\* exactly the old items whose identity matches no new item.
C2_AddedRemovedExact ==
    UpdateSucceeded =>
        /\ ret.added = NotIn(NewItems, OldItems)
        /\ ret.removed = NotIn(OldItems, NewItems)

\* an update that kept one annotation, dropped one and brought one in
C2_Witness ==
    /\ UpdateSucceeded
    /\ ret.added # <<>>
    /\ ret.removed # <<>>
    /\ Len(ret.added) < Len(NewItems)
    /\ Len(ret.removed) < Len(OldItems)

\* the last call was update_file and the stat failed, or the file was at or
\* below the ceiling and the read failed
UpdateCouldNotRead ==
    /\ call.op = "update_file"
    /\ \/ ~call.fs.stat_ok
       \/ call.fs.len <= MAX_FILE_SIZE /\ ~call.fs.read_ok

\* C3: when update_file cannot stat or read the file it returns an error and the
\* whole index is as it was before the call.
C3_FailureLeavesIndex ==
    UpdateCouldNotRead => (~ret.ok /\ items = before)

\* a failed update of an indexed path, with the other path indexed too
C3_Witness ==
    /\ UpdateCouldNotRead
    /\ ~ret.ok
    /\ DOMAIN before = Files
    /\ call.fs.stat_ok

\* the last call was update_file on a file above the ceiling
UpdateOversized ==
    /\ call.op = "update_file"
    /\ call.fs.stat_ok
    /\ call.fs.len > MAX_FILE_SIZE

\* C4: update_file on a file above MAX_FILE_SIZE does not read the body, succeeds,
\* returns removed = the list indexed before (empty if none) and added empty, and
\* leaves no entry for the path.
C4_OversizedEvicts ==
    UpdateOversized =>
        /\ ~ret.body_read
        /\ ret.ok
        /\ ret.removed = (IF call.path \in DOMAIN before THEN before[call.path] ELSE <<>>)
        /\ ret.added = <<>>
        /\ call.path \notin DOMAIN items

\* an indexed file grew above the ceiling while still holding annotations
C4_Witness ==
    /\ UpdateOversized
    /\ call.path \in DOMAIN before
    /\ call.fs.read_ok
    /\ NewItems # <<>>
    /\ ret.removed # <<>>

\* C5: remove_file never fails, returns exactly the list indexed before (empty
\* when the path was absent), and leaves no entry for the path.
C5_RemoveFileEvicts ==
    call.op = "remove_file" =>
        /\ ret.ok
        /\ ret.removed = (IF call.path \in DOMAIN before THEN before[call.path] ELSE <<>>)
        /\ call.path \notin DOMAIN items

\* remove_file took out an indexed path
C5_Witness ==
    /\ call.op = "remove_file"
    /\ call.path \in DOMAIN before
    /\ Len(ret.removed) >= 1

(***************************************************************************)
(* Properties of compute_diff and cmd_diff                                 *)
(***************************************************************************)
\* compute_diff has returned Ok and its locals are still in view
Computed == diff.pc = "computed" /\ diff.ok

\* B: the annotations scanned from base-ref content of changed files
B == diff.base_items

\* C: the current annotations whose file is in the changed-file set
C == LET InSet(i) == i.file \in diff.changed_files IN SelectSeq(diff.current, InSet)

\* the items of the entries that carry the given status, in entry order
ItemsWith(entries, status) ==
    LET Has(e) == e.status = status
        sel == SelectSeq(entries, Has)
    IN  [k \in DOMAIN sel |-> sel[k].item]

\* how often x occurs in list
Occurrences(list, x) == Cardinality({k \in DOMAIN list : list[k] = x})

Members(list) == {list[k] : k \in DOMAIN list}

\* the two lists hold the same items the same number of times
SameBag(s, t) == \A x \in Members(s) \cup Members(t) : Occurrences(s, x) = Occurrences(t, x)

\* list without its k-th item
Without(list, k) == SubSeq(list, 1, k - 1) \o SubSeq(list, k + 1, Len(list))

\* C6: for every successful compute_diff the Added entries are exactly the
\* members of C whose identity is the identity of no member of B, and the
\* Removed entries are exactly the members of B whose identity is the identity
\* of no member of C.
C6_PartitionExact ==
    Computed =>
        /\ ItemsWith(diff.result.entries, "Added") = NotIn(C, B)
        /\ ItemsWith(diff.result.entries, "Removed") = NotIn(B, C)
        /\ \A k \in DOMAIN diff.result.entries :
               diff.result.entries[k].status \in {"Added", "Removed"}

\* a diff over both files with an added, a removed and a kept annotation
C6_Witness ==
    /\ Computed
    /\ diff.changed_files = Files
    /\ ItemsWith(diff.result.entries, "Added") # <<>>
    /\ ItemsWith(diff.result.entries, "Removed") # <<>>
    /\ Len(diff.result.entries) < Len(B) + Len(C)

\* C7: diffing a snapshot against itself yields no entries, also when the
\* snapshot holds several annotations with the same identity.
C7_SelfDiffEmpty ==
    (Computed /\ SameBag(B, C)) => diff.result.entries = <<>>

\* a snapshot with two annotations of one identity, diffed against itself
C7_Witness ==
    /\ Computed
    /\ SameBag(B, C)
    /\ \E i, j \in DOMAIN B : i # j /\ IdentityKey(B[i]) = IdentityKey(B[j])
    /\ diff.result.entries = <<>>

\* C8 for compute_diff: a base and a current annotation of one identity give
\* no Added and no Removed entry
C8_Diff ==
    Computed =>
        \A i \in DOMAIN B, j \in DOMAIN C :
            IdentityKey(B[i]) = IdentityKey(C[j]) =>
                /\ C[j] \notin Members(ItemsWith(diff.result.entries, "Added"))
                /\ B[i] \notin Members(ItemsWith(diff.result.entries, "Removed"))

\* C8 for update_file: an old and a new annotation of one identity are neither
\* added nor removed
C8_Index ==
    UpdateSucceeded =>
        \A i \in DOMAIN OldItems, j \in DOMAIN NewItems :
            IdentityKey(OldItems[i]) = IdentityKey(NewItems[j]) =>
                /\ NewItems[j] \notin Members(ret.added)
                /\ OldItems[i] \notin Members(ret.removed)

\* C8: a change that keeps an annotation's identity (file, tag, trimmed and
\* lower-cased message), such as another line, author, priority, issue
\* reference or letter case, produces no Added and no Removed entry for that
\* annotation, in compute_diff and in update_file alike.
C8_IdentityPreserved == C8_Diff /\ C8_Index

\* the old and the new annotation differ in everything but the identity
DiffersOutsideIdentity(o, n) ==
    /\ IdentityKey(o) = IdentityKey(n)
    /\ o.line # n.line
    /\ o.message # n.message
    /\ o.author # n.author
    /\ o.priority # n.priority
    /\ o.issue_ref # n.issue_ref

\* compute_diff saw an annotation move and change case, author, priority and
\* issue reference, and reported nothing
C8_Witness ==
    /\ Computed
    /\ \E i \in DOMAIN B, j \in DOMAIN C : DiffersOutsideIdentity(B[i], C[j])
    /\ diff.result.entries = <<>>

\* update_file saw the same kind of change and reported nothing
C8_WitnessIndex ==
    /\ UpdateSucceeded
    /\ \E i \in DOMAIN OldItems, j \in DOMAIN NewItems :
           DiffersOutsideIdentity(OldItems[i], NewItems[j])
    /\ ret.added = <<>>
    /\ ret.removed = <<>>

\* n is o with another tag and nothing else changed
TagChanged(o, n) == o.tag # n.tag /\ n = [o EXCEPT !.tag = n.tag]

\* n is o with a message of another normalized form (and the issue reference
\* that message carries) and nothing else changed
MessageChanged(o, n) ==
    /\ to_lowercase(trim(o.message)) # to_lowercase(trim(n.message))
    /\ n = [o EXCEPT !.message = n.message, !.issue_ref = n.issue_ref]

\* B[i] became C[j] and no other annotation of B or C has the old or the new identity
SingleChange(i, j) ==
    /\ TagChanged(B[i], C[j]) \/ MessageChanged(B[i], C[j])
    /\ \A k \in DOMAIN B \ {i} : IdentityKey(B[k]) \notin {IdentityKey(B[i]), IdentityKey(C[j])}
    /\ \A k \in DOMAIN C \ {j} : IdentityKey(C[k]) \notin {IdentityKey(B[i]), IdentityKey(C[j])}

\* C9: when one annotation has only its tag changed, or only its message changed
\* to another normalized form, and no other annotation has the old or the new
\* identity, the diff holds exactly one Removed entry for it (the old annotation)
\* and exactly one Added entry (the new one); when nothing else changed these
\* two are the whole diff.
C9_ChangeIsRemovedPlusAdded ==
    Computed =>
        \A i \in DOMAIN B, j \in DOMAIN C :
            SingleChange(i, j) =>
                /\ Occurrences(diff.result.entries, DiffEntry("Removed", B[i])) = 1
                /\ Occurrences(diff.result.entries, DiffEntry("Added", C[j])) = 1
                /\ \A k \in DOMAIN diff.result.entries :
                       LET e == diff.result.entries[k] IN
                       IdentityKey(e.item) \in {IdentityKey(B[i]), IdentityKey(C[j])} =>
                           e \in {DiffEntry("Removed", B[i]), DiffEntry("Added", C[j])}
                /\ SameBag(Without(B, i), Without(C, j)) => Len(diff.result.entries) = 2

\* a tag change next to an unchanged annotation: exactly two entries
C9_Witness ==
    /\ Computed
    /\ \E i \in DOMAIN B, j \in DOMAIN C :
           /\ SingleChange(i, j)
           /\ TagChanged(B[i], C[j])
           /\ SameBag(Without(B, i), Without(C, j))
           /\ Len(B) = 2
    /\ Len(diff.result.entries) = 2

\* a message change: exactly two entries
C9_WitnessMessage ==
    /\ Computed
    /\ \E i \in DOMAIN B, j \in DOMAIN C :
           /\ SingleChange(i, j)
           /\ MessageChanged(B[i], C[j])
           /\ SameBag(Without(B, i), Without(C, j))
    /\ Len(diff.result.entries) = 2

\* the DiffResult that compute_diff returned or that print_diff is given
HandedOver == Computed \/ diff.pc = "printed"

\* C10: every DiffResult has added_count = number of Added entries,
\* removed_count = number of Removed entries and entries.len() = added_count +
\* removed_count, as returned by compute_diff and after the tag filter of cmd_diff.
C10_CountsMatchEntries ==
    HandedOver =>
        /\ diff.result.added_count = Len(ItemsWith(diff.result.entries, "Added"))
        /\ diff.result.removed_count = Len(ItemsWith(diff.result.entries, "Removed"))
        /\ Len(diff.result.entries) = diff.result.added_count + diff.result.removed_count

\* a tag filter kept one entry of a diff and dropped another
C10_Witness ==
    /\ diff.pc = "printed"
    /\ diff.tag # <<>>
    /\ diff.result.added_count = 1
    /\ diff.result.removed_count = 0
    /\ Len(diff.result.entries) = 1

\* C11: no entry of a compute_diff result, Added or Removed, names a file outside
\* the changed-file set; a file of the base ref that is not reported as changed
\* contributes no entry.
C11_EntriesInChangedFiles ==
    Computed =>
        \A k \in DOMAIN diff.result.entries :
            diff.result.entries[k].item.file \in diff.changed_files

\* a file of the base ref holds current annotations, is not reported as
\* changed, and the diff of the other file has entries
C11_Witness ==
    /\ Computed
    /\ \E f \in diff.base_files \ diff.changed_files : f \in current_files(diff.current)
    /\ diff.result.entries # <<>>

(***************************************************************************)
(* Properties of detect_changed_files                                      *)
(***************************************************************************)
Detected == call.op = "detect_changed_files"

\* C12: when both change-listing git commands succeed, the changed-file set is
\* exactly the union of (a) the paths that differ between the base ref and the
\* index, (b) the paths that differ between the index and the working tree and
\* (c) the files of current annotations that are absent from the base file list.
C12_ChangedSetIsUnion ==
    (Detected /\ call.from_ref_ok /\ call.unstaged_ok) =>
        ret.changed_files =
            call.staged \cup call.unstaged
                \cup {f \in current_files(call.current) : f \notin call.base_files}

\* what the code returns when both commands succeed: (b) and (c), and of (a)
\* nothing, because the ref is read as a pathspec
C12_ChangedSetWithoutStaged ==
    (Detected /\ call.from_ref_ok /\ call.unstaged_ok) =>
        ret.changed_files =
            call.unstaged
                \cup {f \in current_files(call.current) : f \notin call.base_files}

\* a committed or staged change of a base file with a clean working tree is
\* not in the changed-file set
C12_Witness ==
    /\ Detected /\ call.from_ref_ok /\ call.unstaged_ok
    /\ call.staged = {"a.rs"}
    /\ call.unstaged = {}
    /\ "a.rs" \in call.base_files
    /\ ret.changed_files = {}

\* C13: when either of the two change-listing git commands fails,
\* detect_changed_files returns exactly the union of every path of the base
\* file listing and every file named by a current annotation, and reports no
\* error.
C13_FallbackIsEverything ==
    (Detected /\ ~(call.from_ref_ok /\ call.unstaged_ok)) =>
        /\ ret.ok
        /\ ret.changed_files =
               call.base_files \cup {call.current[k].file : k \in DOMAIN call.current}

\* one listing failed; a base file with no current annotation and a new file
\* with one are both in the set although nothing of the working tree differs
C13_Witness ==
    /\ Detected
    /\ ~call.from_ref_ok /\ call.unstaged_ok
    /\ call.unstaged = {}
    /\ call.base_files = {"a.rs"}
    /\ {call.current[k].file : k \in DOMAIN call.current} = {"b.rs"}
    /\ ret.changed_files = Files

\* compute_diff was called with a ref whose first character is '-'
DashRef == diff.pc \in {"entered", "listed", "fetching", "computed"} /\ diff.base_ref[1] = "-"

\* C14: compute_diff called with a base ref that starts with '-' returns an
\* error and runs no git command at all.
C14_DashRefRunsNoGit ==
    DashRef =>
        /\ diff.git_log = <<>>
        /\ diff.pc \in {"entered", "computed"}
        /\ diff.pc = "computed" => ~diff.ok

\* compute_diff has returned for a ref that starts with '-', whatever the scan held
C14_Witness ==
    /\ DashRef
    /\ diff.pc = "computed"
    /\ ~diff.ok
    /\ diff.current # <<>>
    /\ diff.git_log = <<>>

\* git ls-tree was run and failed
ListingFailed == diff.git_log # <<>> /\ diff.git_log[1].cmd = "ls-tree" /\ ~diff.file_list_ok

\* C15: when listing the files at the base ref fails, compute_diff returns an
\* error that names the ref and produces no DiffResult; it does not go on with
\* all files as changed (no further git command, no changed-file set).
C15_ListingFailureIsFatal ==
    ListingFailed =>
        /\ diff.pc = "computed"
        /\ ~diff.ok
        /\ diff.err.arg = diff.base_ref
        /\ diff.result = NoResult
        /\ Len(diff.git_log) = 1
        /\ diff.changed_files = {}

\* the listing failed while the working tree held annotations
C15_Witness ==
    /\ ListingFailed
    /\ diff.pc = "computed"
    /\ ~diff.ok
    /\ diff.err.arg = <<"H", "E", "A", "D">>
    /\ diff.current # <<>>

\* the items of list that belong to file
OfFile(list, file) == LET In(i) == i.file = file IN SelectSeq(list, In)

\* C16: when fetching the base-ref content of a changed file fails,
\* compute_diff still returns Ok, and the entries of every file are decided by
\* that file's own base scan and current annotations alone, so the entries of
\* the other files are what they are when the fetch succeeds.
C16_FetchFailureIsLocal ==
    /\ (diff.pc = "computed" /\ diff.fetch_failed # {}) => diff.ok
    /\ Computed =>
           \A q \in Files :
               /\ OfFile(ItemsWith(diff.result.entries, "Added"), q)
                      = NotIn(OfFile(C, q), OfFile(B, q))
               /\ OfFile(ItemsWith(diff.result.entries, "Removed"), q)
                      = NotIn(OfFile(B, q), OfFile(C, q))

\* the fetch of a.rs failed, the one of b.rs succeeded, and both files have entries
C16_Witness ==
    /\ Computed
    /\ diff.fetch_failed = {"a.rs"}
    /\ "b.rs" \in diff.changed_files \cap diff.base_files
    /\ OfFile(B, "b.rs") # <<>>
    /\ \E k \in DOMAIN diff.result.entries : diff.result.entries[k].item.file = "b.rs"
    /\ \E k \in DOMAIN diff.result.entries : diff.result.entries[k].item.file = "a.rs"

(***************************************************************************)
(* Properties of the watch loop                                            *)
(***************************************************************************)
\* the turn of the watch loop for one path has reached the end of the loop body
TurnDone == cmd = "watch" /\ watch.pc = "done"

\* C17: an event is printed only for an update that has an added or a
\* removed item; an update with both lists empty prints nothing
C17_EventOnlyForChange ==
    TurnDone =>
        /\ watch.printed => (ret.added # <<>> \/ ret.removed # <<>>)
        /\ (ret.added = <<>> /\ ret.removed = <<>>) => ~watch.printed

\* update_file rewrote the items of the path, no key came or went, and
\* nothing was printed
C17_Witness ==
    /\ TurnDone
    /\ call.op = "update_file"
    /\ ret.ok
    /\ items # before
    /\ ret.added = <<>> /\ ret.removed = <<>>
    /\ ~watch.printed

\* C18: an event built for a path has total = the count of the index after
\* the update of the path, and total_delta = that total minus the count of
\* the index before the update
C18_EventTotals ==
    (TurnDone /\ watch.event.file # None) =>
        /\ watch.event.total = total_count(items)
        /\ watch.event.total_delta = total_count(items) - total_count(before)

\* an event with a negative delta was printed while items remain
C18_Witness ==
    /\ TurnDone
    /\ watch.printed
    /\ watch.event.total_delta < 0
    /\ watch.event.total > 0

\* the tags named by the words given with --tag, whatever their case
AllowList == {t \in Tags : \E k \in DOMAIN watch.tag_filter : from_str(watch.tag_filter[k]) = t}

\* every displayed item of the event of this turn carries an allowed tag
DisplayedAllowed ==
    /\ \A k \in DOMAIN watch.event.added : watch.event.added[k].tag \in AllowList
    /\ \A k \in DOMAIN watch.event.removed : watch.event.removed[k].tag \in AllowList

\* the event of this turn was built and the filter left it no item
EmptiedEvent ==
    /\ watch.event.file # None
    /\ watch.event.added = <<>>
    /\ watch.event.removed = <<>>

\* C19: when --tag was given at least one word, every item of a printed
\* event carries a tag of the allow-list, and an event the filter emptied
\* is not printed
C19_AllowListRespected ==
    (TurnDone /\ watch.tag_filter # <<>>) =>
        /\ watch.printed => DisplayedAllowed
        /\ EmptiedEvent => ~watch.printed

\* C19, for the allow-lists that name at least one tag: what cmd_watch does
C19_ParsedAllowListRespected ==
    (TurnDone /\ AllowList # {}) =>
        /\ watch.printed => DisplayedAllowed
        /\ EmptiedEvent => ~watch.printed

\* --tag named no tag, and an event with an item was printed
C19_Witness ==
    /\ TurnDone
    /\ watch.tag_filter # <<>>
    /\ AllowList = {}
    /\ watch.printed
    /\ watch.event.added # <<>>

\* --tag named a tag, an update brought items of other tags only, and the
\* event was held back
C19_WitnessEmptied ==
    /\ TurnDone
    /\ AllowList # {}
    /\ ret.added # <<>>
    /\ EmptiedEvent
    /\ ~watch.printed

\* update_file returned Err for the path of this turn
FailedUpdate == cmd = "watch" /\ call.op = "update_file" /\ ~ret.ok

\* C20: a failing update_file does not end the loop: the turn ends with
\* nothing printed for the path, the rest of the batch is still to be
\* handled, the running flag is untouched, and the loop then takes the next
\* path of the batch or, the batch done, goes back to recv_timeout
C20_FailedUpdateIsSkipped ==
    [][ /\ (cmd = "watch" /\ watch.pc = "file" /\ call'.op = "update_file" /\ ~ret'.ok) =>
            /\ watch'.pc = "done"
            /\ ~watch'.printed
            /\ watch'.event = NoEvent
            /\ watch'.files = Tail(watch.files)
            /\ watch'.running = watch.running
            /\ items' = items
        /\ (FailedUpdate /\ watch'.pc # watch.pc) =>
            /\ watch.pc = "done"
            /\ watch'.files = watch.files
            /\ watch'.pc = IF watch.files = <<>> THEN "recv" ELSE "file"
      ]_vars

\* update_file failed for the first path of a batch of two
C20_Witness ==
    /\ FailedUpdate
    /\ watch.pc = "done"
    /\ watch.files # <<>>
    /\ ~watch.printed

\* the path of this turn was found to be no regular file, and remove_file ran
RemovedTurn == TurnDone /\ call.op = "remove_file"

\* C21: for a path that is no regular file any more the loop calls
\* remove_file and builds an update with no added item whose removed list is
\* the list indexed for the path before; the index then has no entry for it
C21_VanishedPathIsRemoved ==
    RemovedTurn =>
        /\ ret.added = <<>>
        /\ ret.removed = (IF call.path \in DOMAIN before THEN before[call.path] ELSE <<>>)
        /\ call.path \notin DOMAIN items
        /\ \A q \in DOMAIN before \ {call.path} : q \in DOMAIN items /\ items[q] = before[q]
        /\ watch.event.file # None => watch.event.added = <<>>

\* an indexed path vanished and the event with its removals was printed
C21_Witness ==
    /\ RemovedTurn
    /\ call.path \in DOMAIN before
    /\ watch.printed
    /\ watch.event.removed = before[call.path]
    /\ DOMAIN items # {}

\* the loop has been left and cmd_watch returns
Stopped == cmd = "watch" /\ watch.pc = "stopped"

\* C22: once running is false the loop ends: the paths of the batch in hand
\* are all handled (the flag is looked at only where a batch would be
\* received, and setting it touches neither the index nor the batch), no
\* batch is received after that look, and cmd_watch returns; a disconnected
\* channel ends the loop as well
C22_CancellationEndsTheLoop ==
    /\ [][ /\ (watch'.running # watch.running) =>
                /\ ~watch'.running
                /\ watch'.pc = watch.pc /\ watch'.files = watch.files
                /\ items' = items
           /\ (watch.pc = "recv" /\ ~watch.running) =>
                /\ watch'.pc \in {"recv", "stopped"}
                /\ Len(watch'.channel) >= Len(watch.channel)
                /\ call' = call \/ call'.op # "recv_timeout"
           /\ (watch'.pc = "stopped" /\ watch.pc # "stopped") =>
                /\ watch.pc = "recv"
                /\ watch.files = <<>>
                /\ ~watch.running \/ call' = Received("Disconnected")
           /\ call' = Received("Disconnected") => watch'.pc = "stopped"
           /\ watch.pc = "stopped" => watch'.pc = "stopped"
         ]_vars
    /\ (cmd = "watch" /\ ~watch.running) ~> Stopped

\* Ctrl+C came while paths of a batch were still to be handled
C22_Witness ==
    /\ cmd = "watch"
    /\ ~watch.running
    /\ watch.pc = "file"
    /\ Len(watch.files) >= 2

\* the entries of the index for the paths other than path are left alone
OthersUntouched(path) ==
    /\ DOMAIN items' \ {path} = DOMAIN items \ {path}
    /\ \A q \in DOMAIN items \ {path} : items'[q] = items[q]

\* C23: the consumer takes the messages in the order the watcher sent them
\* and handles one path at a time: a send appends to the channel and touches
\* nothing of the consumer, a receive takes the message sent first and only
\* when the batch in hand is done, its paths are handled in the order of
\* collect_changed_files, and the index is written only by the turn for the
\* first path not yet handled, for that path only
C23_BatchesInOrderOnePathAtATime ==
    [][ /\ Len(watch'.channel) > Len(watch.channel) =>
             /\ \E msg \in Messages : watch'.channel = Append(watch.channel, msg)
             /\ watch' = [watch EXCEPT !.channel = watch'.channel]
             /\ items' = items
        /\ Len(watch'.channel) < Len(watch.channel) =>
             /\ watch.pc = "recv" /\ watch.files = <<>>
             /\ watch'.channel = Tail(watch.channel)
             /\ watch'.files = IF Head(watch.channel).ok
                               THEN collect_changed_files(Head(watch.channel).events)
                               ELSE <<>>
             /\ items' = items
        /\ watch'.files # watch.files =>
             \/ watch.files = <<>> /\ Len(watch'.channel) < Len(watch.channel)
             \/ watch.pc = "file" /\ watch'.files = Tail(watch.files)
        /\ items' # items =>
             /\ watch.pc = "file"
             /\ call'.path = Head(watch.files)
             /\ watch'.files = Tail(watch.files)
             /\ watch'.channel = watch.channel
             /\ OthersUntouched(Head(watch.files))
      ]_vars

\* the batch naming a.rs is in hand while the batch naming a.rs and b.rs
\* waits on the channel
C23_Witness ==
    /\ cmd = "watch"
    /\ watch.pc = "file"
    /\ watch.files = <<"a.rs">>
    /\ watch.channel # <<>>
    /\ watch.channel[1].ok
    /\ collect_changed_files(watch.channel[1].events) = <<"a.rs", "b.rs">>
    /\ "a.rs" \in DOMAIN items

(***************************************************************************)
(* Properties of collect_changed_files, should_exclude, the counts         *)
(***************************************************************************)
\* collect_changed_files has returned; its argument and result are in view
Collected == cmd = "collect" /\ call.op = "collect_changed_files"

\* event k of the batch is of kind Any and names path under the watched root
Names(k, path) ==
    /\ call.events[k].kind = "Any"
    /\ call.events[k].under_root
    /\ call.events[k].rel = path

\* the first event of the batch that names path
FirstNamed(path) == CHOOSE k \in DOMAIN call.events :
    Names(k, path) /\ \A j \in 1..(k - 1) : ~Names(j, path)

\* C24: collect_changed_files returns every path at most once, in the order
\* of first occurrence, and returns a path exactly when an event of kind Any
\* names it under the root
C24_CollectDistinctInOrder ==
    Collected =>
        /\ \A i, j \in DOMAIN ret.files : i # j => ret.files[i] # ret.files[j]
        /\ \A i \in DOMAIN ret.files : \E k \in DOMAIN call.events : Names(k, ret.files[i])
        /\ \A path \in Files :
              (\E k \in DOMAIN call.events : Names(k, path))
                  => \E i \in DOMAIN ret.files : ret.files[i] = path
        /\ \A i, j \in DOMAIN ret.files :
              i < j => FirstNamed(ret.files[i]) < FirstNamed(ret.files[j])

\* a batch that names b.rs, then a.rs, then b.rs again, and yields b.rs, a.rs
C24_Witness ==
    /\ Collected
    /\ Len(call.events) = 3
    /\ Names(1, "b.rs") /\ Names(2, "a.rs") /\ Names(3, "b.rs")
    /\ ret.files = <<"b.rs", "a.rs">>

\* a batch whose events of another kind or outside the root yield nothing
C24_WitnessDropped ==
    /\ Collected
    /\ Len(call.events) = 2
    /\ call.events[1].kind = "AnyContinuous" /\ call.events[1].under_root
    /\ call.events[2].kind = "Any" /\ ~call.events[2].under_root
    /\ ret.files = <<>>

\* C25: for a path that should_exclude reports excluded the turn changes
\* nothing in the index, builds no event and prints none
C25_ExcludedPathIsSkipped ==
    [][ (cmd = "watch" /\ watch.pc = "file" /\ watch'.pc = "done"
            /\ should_exclude(watch.config, Head(watch.files))) =>
            /\ call' = [op |-> "should_exclude", path |-> Head(watch.files), fs |-> NoFs]
            /\ items' = items
            /\ ~watch'.printed
            /\ watch'.event = NoEvent
            /\ watch'.files = Tail(watch.files)
      ]_vars

\* the excluded b.rs was named by a batch while a.rs is indexed
C25_Witness ==
    /\ TurnDone
    /\ call.op = "should_exclude"
    /\ call.path = "b.rs"
    /\ "a.rs" \in DOMAIN items
    /\ items = before
    /\ ~watch.printed

\* the index was built and should_exclude has answered
Asked == cmd = "exclude" /\ call.op = "should_exclude" /\ ret.ok

\* the names between the separators of the relative paths asked about
NamesOf(path) ==
    CASE path = "a.rs" -> {"a.rs"}
      [] path = "n/a.rs" -> {"n", "a.rs"}
      [] path = "nn/a.rs" -> {"nn", "a.rs"}
      [] path = "s/n/a.rs" -> {"s", "n", "a.rs"}

\* a whole component of the path asked about is an excluded directory name
DirHit ==
    \E d \in DOMAIN call.config.exclude_dirs : call.config.exclude_dirs[d] \in NamesOf(call.path)

\* a pattern that compiles matches the path asked about
PatternHit ==
    \E k \in DOMAIN call.config.exclude_patterns :
        /\ call.config.exclude_patterns[k].valid
        /\ call.path \in call.config.exclude_patterns[k].matches

\* C26: should_exclude is true exactly when a whole component of the
\* relative path is an excluded directory name or a compiled pattern matches
\* the relative path; a name that is only part of a component does not count
C26_ExcludedExactly ==
    Asked =>
        /\ ret.excluded <=> (DirHit \/ PatternHit)
        /\ (call.path = "nn/a.rs" /\ call.config = Config(<<"n">>, <<>>)) => ~ret.excluded

\* n is excluded, the path lies under nn, and the path is not excluded
C26_Witness ==
    /\ Asked
    /\ call.path = "nn/a.rs"
    /\ call.config.exclude_dirs = <<"n">>
    /\ ~PatternHit
    /\ ~ret.excluded

\* n is excluded and the path has the nested component n
C26_WitnessNested ==
    /\ Asked
    /\ call.path = "s/n/a.rs"
    /\ call.config = Config(<<"n">>, <<>>)
    /\ ret.excluded

\* the configuration has a pattern that does not compile
HasInvalid ==
    \E k \in DOMAIN call.config.exclude_patterns : ~call.config.exclude_patterns[k].valid

\* C27: a pattern that does not compile does not make TodoIndex::new fail,
\* excludes nothing, and leaves the other patterns in force: the answer is
\* the one the configuration without that pattern gives
C27_InvalidPatternDropped ==
    (cmd = "exclude" /\ call.op = "should_exclude" /\ HasInvalid) =>
        /\ ret.ok = call.tags_ok
        /\ ret.ok =>
             LET Valid(pattern) == pattern.valid
                 others == SelectSeq(call.config.exclude_patterns, Valid)
             IN  /\ ret.compiled = Len(others)
                 /\ ret.excluded =
                        should_exclude(Config(call.config.exclude_dirs, others), call.path)
                 /\ ret.excluded <=> (DirHit \/ PatternHit)

\* a pattern that does not compile stands before one that matches the
\* path: the index is built and the path is excluded by the second
C27_Witness ==
    /\ Asked
    /\ call.config.exclude_dirs = <<>>
    /\ Len(call.config.exclude_patterns) = 2
    /\ ~call.config.exclude_patterns[1].valid
    /\ call.config.exclude_patterns[2].valid
    /\ call.path \in call.config.exclude_patterns[2].matches
    /\ ret.compiled = 1
    /\ ret.excluded

\* only a pattern that does not compile would match: the path is not excluded
C27_WitnessNothing ==
    /\ Asked
    /\ HasInvalid
    /\ call.path = "n/a.rs"
    /\ ~DirHit /\ ~PatternHit
    /\ ~ret.excluded

\* total_count and tag_counts have returned for the index in items
Counted == cmd = "counts" /\ call.op = "tag_counts"

\* the places of the index: a path and a position in its list
Places == {<<f, k>> : f \in DOMAIN items, k \in 1..MaxCounted}

\* the places that hold an item
Held == {pl \in Places : pl[2] <= Len(items[pl[1]])}

\* the places that hold an item of tag
HeldWith(tag) == {pl \in Held : items[pl[1]][pl[2]].tag = tag}

RECURSIVE SumCounts(_)
SumCounts(counts) ==
    IF counts = <<>> THEN 0 ELSE counts[1][2] + SumCounts(Tail(counts))

\* C28: total_count is the number of items over all lists; tag_counts has
\* one pair for each tag that occurs and none for another, with the number
\* of items of the tag, in non-increasing order of count, and its counts add
\* up to total_count
C28_CountsAreExact ==
    Counted =>
        /\ ret.total = Cardinality(Held)
        /\ \A k \in DOMAIN ret.counts :
              /\ ret.counts[k][1] \in Tags
              /\ ret.counts[k][2] = Cardinality(HeldWith(ret.counts[k][1]))
              /\ ret.counts[k][2] >= 1
        /\ \A tag \in Tags :
              Cardinality({k \in DOMAIN ret.counts : ret.counts[k][1] = tag})
                  = IF HeldWith(tag) = {} THEN 0 ELSE 1
        /\ \A i, j \in DOMAIN ret.counts : i < j => ret.counts[i][2] >= ret.counts[j][2]
        /\ SumCounts(ret.counts) = ret.total

\* two tags occur, one more often than the other, in two files
C28_Witness ==
    /\ Counted
    /\ Len(ret.counts) = 2
    /\ ret.counts[1][2] > ret.counts[2][2]
    /\ DOMAIN items = Files
    /\ ret.total >= 3

\* the index is empty and so is tag_counts
C28_WitnessEmpty ==
    /\ Counted
    /\ items = EmptyMap
    /\ ret.counts = <<>>
    /\ ret.total = 0

\* git_command has returned after git ran
GitRan == cmd = "git" /\ call.op = "git_command" /\ call.output.spawned

\* git exited with a non-zero status
GitFailed == call.output.status # 0

\* some message of the error holds text
Carries(text) == \E k \in DOMAIN ret.error : contains(ret.error[k], text)

\* C29: git_command fails when git exits with a non-zero status or writes
\* output that is not valid UTF-8, and the error then carries the joined
\* arguments and the text of stderr; the output is returned only after
\* status zero with valid UTF-8
C29_GitErrorCarriesArgsAndStderr ==
    GitRan =>
        /\ (GitFailed \/ ~is_utf8(call.output.stdout)) =>
              /\ ~ret.ok
              /\ Carries(join(call.args))
              /\ Carries(trim(from_utf8_lossy(call.output.stderr)))
        /\ ret.ok => (~GitFailed /\ is_utf8(call.output.stdout)
                        /\ ret.stdout = call.output.stdout)

\* what the code does: the same, the arguments and stderr being carried
\* after a non-zero status only
C29_GitErrorAfterFailedExit ==
    GitRan =>
        /\ (GitFailed \/ ~is_utf8(call.output.stdout)) => ~ret.ok
        /\ GitFailed =>
              /\ Carries(join(call.args))
              /\ Carries(trim(from_utf8_lossy(call.output.stderr)))
        /\ ret.ok => (~GitFailed /\ is_utf8(call.output.stdout)
                        /\ ret.stdout = call.output.stdout)

\* git exits with status zero and its output is not UTF-8
C29_Witness ==
    /\ GitRan
    /\ ~GitFailed
    /\ ~is_utf8(call.output.stdout)
    /\ ~ret.ok
    /\ ~Carries(join(call.args))

\* git exits with a non-zero status and a message on stderr
C29_WitnessFailedExit ==
    /\ GitRan
    /\ GitFailed
    /\ call.args = <<"show", "HEAD:a.rs">>
    /\ call.output.stderr = <<"x", " ">>
    /\ ret.error = << <<"git ", "show", " ", "HEAD:a.rs", " failed: ", "x">> >>

\* update_file has returned for a file that is as it was when the entry of
\* its path was last built
RescannedUnchanged == cmd = "rescan" /\ call.op = "update_file" /\ call.unchanged

\* nothing is reported and the index is as before the call
NothingChanged ==
    /\ ret.ok
    /\ ret.added = <<>>
    /\ ret.removed = <<>>
    /\ items = before

\* C30: update_file on a file whose content is the content the index entry
\* of its path was last built from returns empty added and removed lists
\* and leaves the index as it was
C30_UpdateUnchangedIsIdempotent == RescannedUnchanged => NothingChanged

\* what the code does: the same for a file within MAX_FILE_SIZE, and for a
\* larger one whose path has no entry
C30_UpdateUnchangedWithinCeiling ==
    (RescannedUnchanged /\ (call.fs.len <= MAX_FILE_SIZE \/ call.path \notin DOMAIN before))
        => NothingChanged

\* a file above MAX_FILE_SIZE that TodoIndex::new indexed is updated
\* unchanged, and its entry goes
C30_Witness ==
    /\ RescannedUnchanged
    /\ call.fs.len > MAX_FILE_SIZE
    /\ call.path \in DOMAIN before
    /\ ret.removed = before[call.path]
    /\ call.path \notin DOMAIN items

\* an unchanged file with two annotations, within the size, is updated
C30_WitnessUnchanged ==
    /\ RescannedUnchanged
    /\ call.fs.len <= MAX_FILE_SIZE
    /\ call.path \in DOMAIN items
    /\ Len(items[call.path]) = 2
    /\ NothingChanged

\* run_check has returned
Checked == cmd = "check" /\ call.op = "run_check"

\* the override when there is one, the configured value otherwise
EffectiveLimit(override, configured) ==
    CASE override.some -> override
      [] configured.some -> configured
      [] OTHER -> NoLimit

\* the words of the override and configured block tags
BlockedWords ==
    {call.overrides.block_tags[k] : k \in DOMAIN call.overrides.block_tags}
        \cup {call.check.block_tags[k] : k \in DOMAIN call.check.block_tags}

\* some scanned item has a blocked tag, whatever the case of the word
SomeBlocked ==
    \E k \in DOMAIN call.scan : \E w \in BlockedWords : from_str(w) = call.scan[k].tag

\* more items than the effective max
OverMax ==
    LET max == EffectiveLimit(call.overrides.max, call.check.max) IN
    max.some /\ Len(call.scan) > max.value

\* a diff is given and it adds more than the effective max_new
OverMaxNew ==
    LET max_new == EffectiveLimit(call.overrides.max_new, call.check.max_new) IN
    max_new.some /\ call.diff.some /\ call.diff.value > max_new.value

\* C31: run_check passes exactly when no scanned item has a blocked tag, the
\* number of items is not above the effective max, and the added count of a
\* given diff is not above the effective max_new; the override goes before
\* the configured value and a count equal to the threshold passes
C31_PassedExactlyWithoutViolation ==
    Checked => (ret.passed <=> ~(SomeBlocked \/ OverMax \/ OverMaxNew))

\* the counts are equal to thresholds that the overrides set above
\* the configured ones, and the check passes
C31_Witness ==
    /\ Checked
    /\ ret.passed
    /\ call.overrides.max = Some(2) /\ call.check.max = Some(1) /\ Len(call.scan) = 2
    /\ call.overrides.max_new = Some(1) /\ call.check.max_new = Some(0)
    /\ call.diff = Some(1)

\* an item is blocked by a word in another case, and nothing else is wrong
C31_WitnessBlocked ==
    /\ Checked
    /\ ~ret.passed
    /\ call.overrides.block_tags = <<"todo">>
    /\ Len(ret.violations) = 1
    /\ ret.violations[1].rule = "block_tags"

\* how many items of list have the identity key
Copies(list, key) == Cardinality({k \in DOMAIN list : IdentityKey(list[k]) = key})

\* the items of here that are reported against there are all the copies of
\* the keys that there does not hold, and no copy of a key that it holds
ByKeyMembership(here, there, reported) ==
    \A key \in IdentityKeys(here) :
        Copies(reported, key) = IF Copies(there, key) >= 1 THEN 0 ELSE Copies(here, key)

\* C32: several annotations of one identity key are treated by key
\* membership, in compute_diff and in update_file: when the other snapshot
\* holds at least one annotation of the key no copy is reported, whatever the
\* numbers of copies; when it holds none every copy is reported
C32_DuplicatesByKeyMembership ==
    /\ Computed =>
          /\ ByKeyMembership(C, B, ItemsWith(diff.result.entries, "Added"))
          /\ ByKeyMembership(B, C, ItemsWith(diff.result.entries, "Removed"))
    /\ UpdateSucceeded =>
          /\ ByKeyMembership(NewItems, OldItems, ret.added)
          /\ ByKeyMembership(OldItems, NewItems, ret.removed)

\* the current snapshot holds two copies of a key that the base does not
\* hold, and both are Added
C32_Witness ==
    /\ Computed
    /\ \E key \in IdentityKeys(C) : Copies(C, key) = 2 /\ Copies(B, key) = 0
    /\ diff.result.added_count = 2

\* two copies of a key in the base and one in the current snapshot: nothing
\* is reported
C32_WitnessUnequal ==
    /\ Computed
    /\ \E key \in IdentityKeys(C) : Copies(C, key) = 1 /\ Copies(B, key) = 2
    /\ diff.result.entries = <<>>

\* update_file on a file that lost both copies of a key: both are removed
C32_WitnessIndex ==
    /\ UpdateSucceeded
    /\ \E key \in IdentityKeys(OldItems) : Copies(OldItems, key) = 2 /\ Copies(NewItems, key) = 0
    /\ Len(ret.removed) = 2

\* an event was built in this turn from the FileUpdate in ret
EventBuilt == TurnDone /\ watch.event.file # None

\* the update of this turn was suppressed for having nothing added or removed
SuppressedNoop == TurnDone /\ ret.ok /\ ret.added = <<>> /\ ret.removed = <<>>

\* no two items of list have one identity key
DistinctKeys(list) ==
    \A i, j \in DOMAIN list : IdentityKey(list[i]) = IdentityKey(list[j]) => i = j

\* neither the entry of the path before the turn nor its entry after it has
\* two items of one identity key
TurnDistinctKeys ==
    /\ DistinctKeys(unwrap_or_default(before, call.path))
    /\ DistinctKeys(unwrap_or_default(items, call.path))

\* C33 as stated: the total_delta of every event built is the number of
\* added items minus the number of removed items of its FileUpdate, and a
\* suppressed update leaves total_count as it was
C33_DeltaIsAddedMinusRemoved ==
    /\ EventBuilt => watch.event.total_delta = Len(ret.added) - Len(ret.removed)
    /\ SuppressedNoop => total_count(items) = total_count(before)

\* C33 amended: total_delta is the count after the update minus the count
\* before it; it is added minus removed, and a suppressed update leaves
\* total_count as it was, when no identity key occurs twice in the old or in
\* the new entry of the path
C33_DeltaIsAddedMinusRemovedForDistinctKeys ==
    /\ EventBuilt => watch.event.total_delta = total_count(items) - total_count(before)
    /\ (EventBuilt /\ TurnDistinctKeys) =>
          watch.event.total_delta = Len(ret.added) - Len(ret.removed)
    /\ (SuppressedNoop /\ TurnDistinctKeys) => total_count(items) = total_count(before)

\* an event for a path with distinct keys that lost one item and gained
\* another
C33_Witness ==
    /\ EventBuilt
    /\ TurnDistinctKeys
    /\ Len(ret.added) = 1
    /\ Len(ret.removed) = 1
    /\ watch.event.total_delta = 0
    /\ watch.printed

\* one of two copies of a key went: nothing is added or removed, nothing is
\* printed, and the count is one less
C33_WitnessCopies ==
    /\ SuppressedNoop
    /\ call.op = "update_file"
    /\ ~watch.printed
    /\ total_count(items) = total_count(before) - 1

\* this step is a turn of the loop that prints an event
PrintsEvent == cmd = "watch" /\ watch.pc = "file" /\ watch'.pc = "done" /\ watch'.printed

\* this step is a turn of the loop that prints nothing although its update
\* succeeded and changed the count of the index
ChangesUnseen ==
    /\ cmd = "watch" /\ watch.pc = "file" /\ watch'.pc = "done"
    /\ ~watch'.printed
    /\ ret'.ok
    /\ total_count(items') # total_count(items)

\* C34 as stated: every printed event has total - total_delta equal to the
\* total printed last before it, by the initial summary or by the event
\* before, whatever was held back in between
C34_TotalsChain ==
    [][PrintsEvent => watch'.event.total - watch'.event.total_delta = watch.last_total]_vars

\* C34 amended: every printed event has total - total_delta equal to the
\* count of the index right before its update; the total printed last stays
\* equal to the count of the index through every step but a turn that prints
\* nothing and changes the count, which a failed update and an excluded path
\* never do and only an event held back by the tag filter or an update with
\* nothing added or removed does
C34_TotalsChainWhileCountKept ==
    [][/\ PrintsEvent => watch'.event.total - watch'.event.total_delta = total_count(items)
       /\ (watch.last_total = total_count(items) /\ ~ChangesUnseen)
             => watch'.last_total = total_count(items')
       /\ ChangesUnseen =>
             \/ watch'.event.file # None /\ parse_tags(watch.tag_filter) # {}
             \/ ret'.added = <<>> /\ ret'.removed = <<>>]_vars

\* an event is printed whose totals follow on the total printed before it
C34_Witness ==
    /\ TurnDone
    /\ watch.printed
    /\ watch.event.total - watch.event.total_delta = 1
    /\ watch.event.total = 2
    /\ total_count(before) = 1
    /\ watch.last_total = 2

\* an added FIXME was held back by --tag and the count printed last is
\* behind the index
C34_WitnessHeldBack ==
    /\ TurnDone
    /\ ~watch.printed
    /\ watch.event.file # None
    /\ watch.last_total # total_count(items)

\* the paths of the index that should_exclude answers true for
ExcludedEntries == {path \in DOMAIN items : should_exclude(watch.config, path)}

\* C36: in every state of cmd_watch, from TodoIndex::new on, the index holds
\* no entry for a path for which should_exclude returns true
C36_NoExcludedEntry == cmd = "watch" => ExcludedEntries = {}

\* what the code keeps: no entry for a path that the scan's own test, on the
\* path under the root, and should_exclude both exclude; and the loop never
\* adds an entry for a path should_exclude excludes
C36_NoEntryExcludedBothWays ==
    cmd = "watch" =>
        /\ \A path \in ExcludedEntries : ~scan_excludes(watch.config, path)
        /\ \A path \in ExcludedEntries : path \in DOMAIN before /\ items[path] = before[path]

\* TodoIndex::new indexed a.rs although the pattern anchored at the start of
\* the relative path excludes it
C36_Witness ==
    /\ cmd = "watch"
    /\ watch.pc = "recv"
    /\ "a.rs" \in ExcludedEntries
    /\ ~scan_excludes(watch.config, "a.rs")

\* the unanchored pattern kept a.rs out of the scan and the loop skipped it
C36_WitnessSkipped ==
    /\ TurnDone
    /\ call.op = "should_exclude"
    /\ call.path = "a.rs"
    /\ scan_excludes(watch.config, "a.rs")
    /\ "a.rs" \notin DOMAIN items

\* the loop has handled every path since the last change of its file
Settled == cmd = "rescan" /\ call.op = "none" /\ \A path \in DOMAIN disk : disk[path].indexed

\* the files under the root now, with their content
CurrentTree == [path \in {q \in DOMAIN disk : is_file(disk, q)} |-> disk[path].content]

\* the index is one TodoIndex::new builds from the files under the root now
EqualsFreshIndex == \E order \in Orders(DOMAIN CurrentTree) : items = TodoIndex_new(CurrentTree, order)

\* C35: once every created, edited or deleted path has been handled after
\* its last change, the index equals the index TodoIndex::new builds from
\* the current tree
C35_IncrementalEqualsFresh == Settled => EqualsFreshIndex

\* what the code does: the same while no file under the root is above
\* MAX_FILE_SIZE
C35_IncrementalEqualsFreshWithinCeiling ==
    (Settled /\ \A path \in DOMAIN CurrentTree : disk[path].len <= MAX_FILE_SIZE)
        => EqualsFreshIndex

\* a.rs is above MAX_FILE_SIZE and holds an annotation, every path has been
\* handled, and the index has no entry for a.rs
C35_Witness ==
    /\ Settled
    /\ is_file(disk, "a.rs")
    /\ disk["a.rs"].len > MAX_FILE_SIZE
    /\ scan_content(disk["a.rs"].content, "a.rs") # <<>>
    /\ "a.rs" \notin DOMAIN items

\* a.rs was deleted and b.rs rewritten, both have been handled, and the index
\* is the fresh one
C35_WitnessSettled ==
    /\ Settled
    /\ "a.rs" \in DOMAIN disk
    /\ ~is_file(disk, "a.rs")
    /\ "b.rs" \in DOMAIN items
    /\ \A path \in DOMAIN CurrentTree : disk[path].len <= MAX_FILE_SIZE
    /\ EqualsFreshIndex

\* the list indexed for the path of the call, after it and before it
EntryAfter == unwrap_or_default(items, call.path)
EntryBefore == unwrap_or_default(before, call.path)

\* C37: after a successful update_file on a file not above the ceiling the
\* entry of the path is the fresh scan list of the file, absent when that
\* list is empty, and the delta reconciles the two states by key: the keys
\* of the new entry are the keys of the old entry less those of removed,
\* plus those of added; added shares no key with the old entry and removed
\* none with the new one
C37_EntryIsFreshScanAndDeltaReconciles ==
    (cmd = "index" /\ UpdateSucceeded) =>
        /\ NewItems # <<>> => call.path \in DOMAIN items /\ items[call.path] = NewItems
        /\ NewItems = <<>> => call.path \notin DOMAIN items
        /\ IdentityKeys(EntryAfter) =
               (IdentityKeys(EntryBefore) \ IdentityKeys(ret.removed)) \cup IdentityKeys(ret.added)
        /\ IdentityKeys(ret.added) \cap IdentityKeys(EntryBefore) = {}
        /\ IdentityKeys(ret.removed) \cap IdentityKeys(EntryAfter) = {}

\* an entry of two annotations is replaced by another of two: one key stays,
\* one goes, one comes
C37_Witness ==
    /\ cmd = "index"
    /\ UpdateSucceeded
    /\ Len(EntryBefore) = 2
    /\ Len(EntryAfter) = 2
    /\ Cardinality(IdentityKeys(EntryBefore) \cap IdentityKeys(EntryAfter)) = 1
    /\ Len(ret.added) = 1
    /\ Len(ret.removed) = 1

\* the file of an indexed path holds no annotation any more: the entry goes
\* and its keys are the keys of removed
C37_WitnessAbsent ==
    /\ cmd = "index"
    /\ UpdateSucceeded
    /\ EntryBefore # <<>>
    /\ NewItems = <<>>
    /\ call.path \notin DOMAIN items
    /\ IdentityKeys(ret.removed) = IdentityKeys(EntryBefore)

\* the last call was update_file or remove_file
IndexCalled == cmd = "index" /\ call.op \in {"update_file", "remove_file"}

\* the paths other than the path of the call
OtherPaths == (DOMAIN items \cup DOMAIN before) \ {call.path}

\* C38: update_file(path) and remove_file(path) change at most the entry of
\* path: every other path has the same list, or no list, after the call as
\* before it, whether the call succeeded, failed or met the size ceiling
C38_OnlyOwnEntryChanges ==
    IndexCalled =>
        \A q \in OtherPaths :
            /\ q \in DOMAIN items
            /\ q \in DOMAIN before
            /\ items[q] = before[q]

\* update_file replaced the entry of a.rs while b.rs is indexed
C38_Witness ==
    /\ IndexCalled
    /\ call.op = "update_file"
    /\ ret.ok
    /\ call.fs.len <= MAX_FILE_SIZE
    /\ call.path = "a.rs"
    /\ items # before
    /\ "b.rs" \in DOMAIN items

\* update_file failed while another path is indexed
C38_WitnessFailed == IndexCalled /\ call.op = "update_file" /\ ~ret.ok /\ OtherPaths # {}

\* update_file met the size ceiling and dropped the entry while another path is indexed
C38_WitnessCeiling ==
    /\ IndexCalled
    /\ call.op = "update_file"
    /\ call.fs.len > MAX_FILE_SIZE
    /\ call.path \in DOMAIN before
    /\ OtherPaths # {}

\* remove_file dropped an entry while another path is indexed
C38_WitnessRemoved ==
    /\ IndexCalled
    /\ call.op = "remove_file"
    /\ call.path \in DOMAIN before
    /\ OtherPaths # {}

\* the annotations of the changed files in their content at the base ref,
\* whether git show delivered the content or not
AtBaseRef == diff.base_items \o diff.unfetched

\* the annotations compute_diff reports as Added
ReportedAdded == ItemsWith(diff.result.entries, "Added")

\* C39: an annotation is reported as Added by compute_diff only if no
\* annotation of the same identity key is in the content of its file at the
\* base ref, also for a changed file whose content at the base ref could not
\* be fetched
C39_AddedOnlyIfAbsentAtBase ==
    Computed => IdentityKeys(ReportedAdded) \cap IdentityKeys(AtBaseRef) = {}

\* what the code does: the same for the annotations of the files whose
\* content at the base ref was fetched
C39_AddedOnlyIfAbsentFromFetchedBase ==
    Computed =>
        \A k \in DOMAIN ReportedAdded :
            ReportedAdded[k].file \notin diff.fetch_failed
                => IdentityKey(ReportedAdded[k]) \notin IdentityKeys(AtBaseRef)

\* git show failed for a.rs, whose content at the base ref holds the
\* annotation the working tree holds, and the annotation is reported Added
C39_Witness ==
    /\ Computed
    /\ diff.fetch_failed = {"a.rs"}
    /\ \E k \in DOMAIN ReportedAdded :
          /\ ReportedAdded[k].file = "a.rs"
          /\ IdentityKey(ReportedAdded[k]) \in IdentityKeys(diff.unfetched)

\* git show delivered a.rs, one annotation of the working tree is in it and
\* is not reported, another is not and is reported Added
C39_WitnessFetched ==
    /\ Computed
    /\ diff.fetch_failed = {}
    /\ IdentityKeys(OfFile(C, "a.rs")) \cap IdentityKeys(diff.base_items) # {}
    /\ OfFile(ReportedAdded, "a.rs") # <<>>

====
